---- MODULE Spec2Model ----
(***************************************************************************)
(* The node-reboot reconciliation engine of the janitor                    *)
(* (janitor/pkg/controller/rebootnode_controller.go): one RebootNode       *)
(* record in the resource store, one reconciler worker (work is            *)
(* single-flight per key), the CSP actuator and the cluster's node object  *)
(* as nondeterministic environment answers, and a coarse clock.            *)
(*                                                                         *)
(* A Reconcile pass is ReconcileBegin (everything up to the point where    *)
(* updateRebootNodeStatus has decided to write) followed, when the status  *)
(* changed, by ReconcileWrite (refresh + Status().Update) or by            *)
(* ReconcilerRestart (the process dies before the write).  External        *)
(* actors may act between the two.                                         *)
(*                                                                         *)
(* Durations are in seconds.                                               *)
(***************************************************************************)
EXTENDS Integers, Sequences, FiniteSets, TLC

VARIABLES
    rec,        \* the RebootNode object in the resource store
    cfg,        \* RebootNodeReconciler.Config (fixed at construction)
    now,        \* the clock, seconds
    pass,       \* the Reconcile pass in progress, or the last one finished
    calm,       \* clean passes in a row since the last external change (0..2)
    signalled,  \* a SendRebootSignal call has returned success for this record
    backoff,    \* two evaluations of getNextRequeueDelay (SpecBackoff only)
    writer,     \* the status writer against a versioned store (SpecWrite only)
    fleet,      \* two records and their passes side by side (SpecFleet only)
    cache,      \* a CachedDetector and the calls made on it (SpecCache only)
    labeler,    \* a node's labels and the last pod event handled (SpecLabeler only)
    monitor,    \* passes since SignalSent=True was persisted (SpecBounded only)
    detect      \* one Detector.IsKataEnabled call in flight (SpecDetect only)

(* The variables of the specifications that stand beside the RebootNode   *)
(* reconciler; Spec leaves them alone.                                     *)
aux == <<backoff, writer, fleet, cache, labeler, monitor, detect>>

vars == <<rec, cfg, now, pass, calm, signalled, aux>>

----------------------------------------------------------------------------
(* Program constants *)

MaxRebootRetries == 20

DefaultRebootTimeout == 1800

(* Bounds of the model *)

MaxFailures == 3

MaxTicks == 1

TickSeconds == 2000

MaxBackoffInput == 12

ConfiguredTimeouts == {0, 2500}

RequestRefs == {"ref-a", "ref-b"}

CSPErrorText == "csp: operation failed"

(* What the cluster reports for the node: the Get outcome and, when found, *)
(* the node's status conditions.                                           *)
NodeGetOutcomes == {"found", "notfound", "error"}

NodeConditionLists ==
    { <<>>,
      << [type |-> "Ready", status |-> "False"] >>,
      << [type |-> "MemoryPressure", status |-> "True"],
         [type |-> "Ready", status |-> "True"] >>,
      << [type |-> "Ready", status |-> "True"],
         [type |-> "Ready", status |-> "Unknown"] >> }

SendAnswers ==
    [kind : {"ok"}, ref : RequestRefs]
        \cup { [kind |-> "timeout", ref |-> ""], [kind |-> "error", ref |-> ""] }

ReadyAnswers == {"ready", "notready", "timeout", "error"}

----------------------------------------------------------------------------
(* The record: metav1.Condition, RebootNodeStatus and their helpers *)

Nil == <<>>

At(t) == <<t>>

Condition(t, s, r, m, ts) ==
    [type |-> t, status |-> s, reason |-> r, message |-> m,
     lastTransitionTime |-> ts]

EmptyStatus ==
    [conditions |-> <<>>, startTime |-> Nil, completionTime |-> Nil,
     retryCount |-> 0, consecutiveFailures |-> 0]

HasCondition(st, t) ==
    \E i \in 1..Len(st.conditions) : st.conditions[i].type = t

ConditionIndex(st, t) ==
    CHOOSE i \in 1..Len(st.conditions) :
        /\ st.conditions[i].type = t
        /\ \A j \in 1..(i - 1) : st.conditions[j].type # t

ConditionStatus(st, t) ==
    IF HasCondition(st, t) THEN st.conditions[ConditionIndex(st, t)].status
    ELSE "absent"

ConditionReason(st, t) ==
    IF HasCondition(st, t) THEN st.conditions[ConditionIndex(st, t)].reason
    ELSE "absent"

SetCondition_AlwaysAppend(st, c) == [st EXCEPT !.conditions = Append(@, c)]

SetCondition(st, c) ==
    IF HasCondition(st, c.type)
    THEN [st EXCEPT !.conditions[ConditionIndex(st, c.type)] = c]
    ELSE [st EXCEPT !.conditions = Append(@, c)]

SetInitialConditions(st, t) ==
    IF Len(st.conditions) = 0
    THEN [st EXCEPT !.conditions =
            << Condition("SignalSent", "Unknown", "Initializing", "", t),
               Condition("NodeReady", "Unknown", "Initializing", "", t) >>]
    ELSE st

SetStartTime_Always(st, t) == [st EXCEPT !.startTime = At(t)]

SetStartTime(st, t) ==
    IF st.startTime = Nil THEN [st EXCEPT !.startTime = At(t)] ELSE st

SetCompletionTime(st, t) == [st EXCEPT !.completionTime = At(t)]

IsRebootInProgress(st) ==
    /\ ConditionStatus(st, "SignalSent") = "True"
    /\ ConditionStatus(st, "NodeReady") # "True"

GetCSPReqRef(st) ==
    IF HasCondition(st, "SignalSent")
    THEN st.conditions[ConditionIndex(st, "SignalSent")].message
    ELSE ""

----------------------------------------------------------------------------
(* Pure helpers of the controller *)

BackoffDelays == <<30, 60, 120, 300>>

getNextRequeueDelay_CapOneEarly(consecutiveFailures) ==
    IF consecutiveFailures >= Len(BackoffDelays) - 1
    THEN BackoffDelays[Len(BackoffDelays) - 1]
    ELSE BackoffDelays[consecutiveFailures + 1]

getNextRequeueDelay(consecutiveFailures) ==
    IF consecutiveFailures >= Len(BackoffDelays)
    THEN BackoffDelays[Len(BackoffDelays)]
    ELSE BackoffDelays[consecutiveFailures + 1]

(* r.Config is a pointer: nil when the reconciler was built without one *)
NilConfig == [present |-> FALSE, manualMode |-> FALSE, timeout |-> 0]

getRebootTimeout ==
    IF ~cfg.present \/ cfg.timeout = 0 THEN DefaultRebootTimeout
    ELSE cfg.timeout

(* time.Duration's %s form of a whole number of seconds: "30m0s", "1h0m5s" *)
FormatDuration(d) ==
    LET h == d \div 3600
        m == (d % 3600) \div 60
        sec == d % 60
    IN  IF h > 0
        THEN ToString(h) \o "h" \o ToString(m) \o "m" \o ToString(sec) \o "s"
        ELSE IF m > 0 THEN ToString(m) \o "m" \o ToString(sec) \o "s"
        ELSE ToString(sec) \o "s"

RECURSIVE KubernetesReadyFrom(_, _, _)
KubernetesReadyFrom(conds, i, acc) ==
    IF i > Len(conds) THEN acc
    ELSE KubernetesReadyFrom(conds, i + 1,
            IF conds[i].type = "Ready" THEN conds[i].status = "True" ELSE acc)

KubernetesReady(conds) == KubernetesReadyFrom(conds, 1, FALSE)

----------------------------------------------------------------------------
(* The decisions Reconcile takes on the record it fetched *)

AlreadyCompleted_Never(st) == FALSE

AlreadyCompleted(st) == st.completionTime # Nil

MaxRetriesReached_Above(st) == st.retryCount > MaxRebootRetries

MaxRetriesReached(st) == st.retryCount >= MaxRebootRetries

RebootTimedOut(st, t) == t - st.startTime[1] > getRebootTimeout

SignalAlreadySent(st) ==
    \E i \in 1..Len(st.conditions) :
        /\ st.conditions[i].type = "SignalSent"
        /\ st.conditions[i].status = "True"

ManualModeConditionSet_Never(st) == FALSE

ManualModeConditionSet(st) ==
    \E i \in 1..Len(st.conditions) : st.conditions[i].type = "ManualMode"

(* r.Config.ManualMode, rebootnode_controller.go:250 and 366 *)
ManualMode_Off == FALSE

ManualMode == cfg.manualMode

(* What a pass observed and called; the fields a branch does not reach     *)
(* keep these values.                                                      *)
NoObservation ==
    [call |-> "none", answer |-> "none", callRef |-> "",
     cspReady |-> FALSE, k8sReady |-> FALSE]

Called(name, answer, ref) ==
    [NoObservation EXCEPT !.call = name, !.answer = answer, !.callRef = ref]

Outcome(branch, obs, upd, result, metrics) ==
    [branch |-> branch, obs |-> obs, upd |-> upd, result |-> result,
     metrics |-> metrics]

(* rebootnode_controller.go:196-234 *)
MaxRetriesBranch(st, t) ==
    Outcome("maxRetries", NoObservation,
            SetCondition(SetCompletionTime(st, t),
                Condition("NodeReady", "False", "MaxRetriesExceeded",
                    "Node failed to reach ready state after "
                        \o ToString(MaxRebootRetries) \o " retries over "
                        \o FormatDuration(getRebootTimeout), t)),
            0, {"failed"})

(* The deadline-exceeded early return of either actuator call:             *)
(* rebootnode_controller.go:261-273 and 401-413                            *)
ActuatorTimeoutStatus_NotCounted(st) == st

ActuatorTimeoutStatus(st) ==
    [st EXCEPT !.consecutiveFailures = @ + 1]

ActuatorTimeoutDelay(st) ==
    getNextRequeueDelay(ActuatorTimeoutStatus(st).consecutiveFailures)

(* rebootnode_controller.go:285-301 *)
ReadinessCheckFailed(st, t) ==
    SetCondition(
        SetCompletionTime([st EXCEPT !.consecutiveFailures = @ + 1], t),
        Condition("NodeReady", "False", "Failed",
                  "Node status could not be checked from CSP: " \o CSPErrorText,
                  t))

(* rebootnode_controller.go:302-323 *)
BothReady_CSPOnly(cspReady, kubernetesReady) == cspReady

BothReady(cspReady, kubernetesReady) == cspReady /\ kubernetesReady

RebootSucceeded_NoReset(st, t) ==
    SetCondition(SetCompletionTime(st, t),
        Condition("NodeReady", "True", "Succeeded",
                  "Node reached ready state post-reboot", t))

RebootSucceeded(st, t) ==
    SetCondition(
        SetCompletionTime([st EXCEPT !.consecutiveFailures = 0], t),
        Condition("NodeReady", "True", "Succeeded",
                  "Node reached ready state post-reboot", t))

(* rebootnode_controller.go:324-341 *)
RebootTimeoutStatus_NotCompleted(st, t) ==
    SetCondition(st,
        Condition("NodeReady", "False", "Timeout",
                  "Node failed to return to ready state after timeout duration",
                  t))

RebootTimeoutStatus(st, t) ==
    SetCondition(SetCompletionTime(st, t),
        Condition("NodeReady", "False", "Timeout",
                  "Node failed to return to ready state after timeout duration",
                  t))

(* rebootnode_controller.go:245: every monitoring pass counts as a retry *)
MonitoringAttempt_NotCounted(st) == st

MonitoringAttempt(st) == [st EXCEPT !.retryCount = @ + 1]

(* rebootnode_controller.go:258: the readiness call carries the reference  *)
(* kept in the SignalSent condition                                        *)
IsNodeReadyCall_NoRef(st, readyAns) == Called("IsNodeReady", readyAns, "")

IsNodeReadyCall(st, readyAns) ==
    Called("IsNodeReady", readyAns, GetCSPReqRef(st))

(* rebootnode_controller.go:243-347: the reboot has already started *)
MonitoringBranch_TimeoutBeforeSuccess(st, nodeConds, readyAns, t) ==
    LET s1 == MonitoringAttempt(st)
        called == ~ManualMode
        cspReady == IF called THEN readyAns = "ready" ELSE TRUE
        nodeReadyErr == called /\ readyAns = "error"
        kubernetesReady == KubernetesReady(nodeConds)
        call == IF called THEN IsNodeReadyCall(s1, readyAns)
                ELSE NoObservation
        obs == [call EXCEPT !.cspReady = cspReady,
                            !.k8sReady = kubernetesReady]
    IN  IF called /\ readyAns = "timeout"
        THEN Outcome("monitorTimeout", call, ActuatorTimeoutStatus(s1),
                     ActuatorTimeoutDelay(s1), {})
        ELSE IF nodeReadyErr
        THEN Outcome("monitorFailed", obs, ReadinessCheckFailed(s1, t), 0,
                     {"failed"})
        ELSE IF RebootTimedOut(s1, t)
        THEN Outcome("rebootTimeout", obs, RebootTimeoutStatus(s1, t), 0,
                     {"failed"})
        ELSE IF BothReady(cspReady, kubernetesReady)
        THEN Outcome("succeeded", obs, RebootSucceeded(s1, t), 0,
                     {"succeeded", "mttr"})
        ELSE Outcome("waiting", obs, s1,
                     getNextRequeueDelay(s1.consecutiveFailures), {})

MonitoringBranch(st, nodeConds, readyAns, t) ==
    LET s1 == MonitoringAttempt(st)
        called == ~ManualMode
        cspReady == IF called THEN readyAns = "ready" ELSE TRUE
        nodeReadyErr == called /\ readyAns = "error"
        kubernetesReady == KubernetesReady(nodeConds)
        call == IF called THEN IsNodeReadyCall(s1, readyAns)
                ELSE NoObservation
        obs == [call EXCEPT !.cspReady = cspReady,
                            !.k8sReady = kubernetesReady]
    IN  IF called /\ readyAns = "timeout"
        THEN Outcome("monitorTimeout", call, ActuatorTimeoutStatus(s1),
                     ActuatorTimeoutDelay(s1), {})
        ELSE IF nodeReadyErr
        THEN Outcome("monitorFailed", obs, ReadinessCheckFailed(s1, t), 0,
                     {"failed"})
        ELSE IF BothReady(cspReady, kubernetesReady)
        THEN Outcome("succeeded", obs, RebootSucceeded(s1, t), 0,
                     {"succeeded", "mttr"})
        ELSE IF RebootTimedOut(s1, t)
        THEN Outcome("rebootTimeout", obs, RebootTimeoutStatus(s1, t), 0,
                     {"failed"})
        ELSE Outcome("waiting", obs, s1,
                     getNextRequeueDelay(s1.consecutiveFailures), {})

(* rebootnode_controller.go:366-387 *)
ManualModeBranch(st, t) ==
    IF ~ManualModeConditionSet(st)
    THEN Outcome("manual", NoObservation,
                 SetCondition(st,
                     Condition("ManualMode", "True", "OutsideActorRequired",
                       "Janitor is in manual mode, outside actor required to send reboot signal",
                       t)),
                 0, {"started"})
    ELSE Outcome("manual", NoObservation, st, 0, {})

(* rebootnode_controller.go:415-429 *)
PostSignalRequeue == 30

SignalSentStatus_NoRef(st, ref, t) ==
    SetCondition([st EXCEPT !.consecutiveFailures = 0],
        Condition("SignalSent", "True", "Succeeded", "", t))

SignalSentStatus(st, ref, t) ==
    SetCondition([st EXCEPT !.consecutiveFailures = 0],
        Condition("SignalSent", "True", "Succeeded", ref, t))

(* rebootnode_controller.go:430-445 *)
SignalFailedStatus_OnNodeReady(st, t) ==
    SetCondition(
        SetCompletionTime([st EXCEPT !.consecutiveFailures = @ + 1], t),
        Condition("NodeReady", "False", "Failed", CSPErrorText, t))

SignalFailedStatus_NotCompleted(st, t) ==
    SetCondition([st EXCEPT !.consecutiveFailures = @ + 1],
        Condition("SignalSent", "False", "Failed", CSPErrorText, t))

SignalFailedStatus(st, t) ==
    SetCondition(
        SetCompletionTime([st EXCEPT !.consecutiveFailures = @ + 1], t),
        Condition("SignalSent", "False", "Failed", CSPErrorText, t))

(* rebootnode_controller.go:388-446 *)
SendBranch_FailureNotCounted(st, sendAns, t) ==
    LET call == Called("SendRebootSignal", sendAns.kind, sendAns.ref)
    IN  IF sendAns.kind = "timeout"
        THEN Outcome("sendTimeout", call, ActuatorTimeoutStatus(st),
                     ActuatorTimeoutDelay(st), {"started"})
        ELSE IF sendAns.kind = "ok"
        THEN Outcome("signalSent", call, SignalSentStatus(st, sendAns.ref, t),
                     PostSignalRequeue, {"started"})
        ELSE Outcome("sendFailed", call, SignalFailedStatus(st, t), 0,
                     {"started"})

SendBranch(st, sendAns, t) ==
    LET call == Called("SendRebootSignal", sendAns.kind, sendAns.ref)
    IN  IF sendAns.kind = "timeout"
        THEN Outcome("sendTimeout", call, ActuatorTimeoutStatus(st),
                     ActuatorTimeoutDelay(st), {"started"})
        ELSE IF sendAns.kind = "ok"
        THEN Outcome("signalSent", call, SignalSentStatus(st, sendAns.ref, t),
                     PostSignalRequeue, {"started"})
        ELSE Outcome("sendFailed", call, SignalFailedStatus(st, t), 0,
                     {"started", "failed"})

(* rebootnode_controller.go:348-448: the reboot has not started *)
SignalBranch(st, sendAns, t) ==
    IF SignalAlreadySent(st)
    THEN Outcome("signalAlreadySent", NoObservation, st,
                 getNextRequeueDelay(st.consecutiveFailures), {})
    ELSE IF ManualMode THEN ManualModeBranch(st, t)
    ELSE SendBranch(st, sendAns, t)

----------------------------------------------------------------------------
(* The store object and the pass record *)

FreshRecord ==
    [exists |-> TRUE, deleting |-> FALSE, finalizer |-> FALSE,
     status |-> EmptyStatus]

Absent ==
    [exists |-> FALSE, deleting |-> FALSE, finalizer |-> FALSE,
     status |-> EmptyStatus]

(* cleanups counts the deletion passes in a row that ran the cleanup step   *)
(* (rebootnode_controller.go:156-162), up to 2.                            *)
(* phase: "idle" before the first pass, "writing" between ReconcileBegin   *)
(* and the status write, "done" once Reconcile has returned, "crashed"     *)
(* when the process died before the write.  orig/upd are                   *)
(* originalRebootNode.Status and rebootNode.Status; result is the          *)
(* ctrl.Result computed (RequeueAfter, 0 for none); ret and err are what   *)
(* Reconcile returned.                                                     *)
IdlePass ==
    [phase |-> "idle", branch |-> "none", found |-> FALSE,
     deleting |-> FALSE, hadFinalizer |-> FALSE, finalizerUpdate |-> "none",
     orig |-> EmptyStatus, upd |-> EmptyStatus, nodeGet |-> "none",
     obs |-> NoObservation, result |-> 0, metrics |-> {},
     ret |-> 0, err |-> FALSE, wrote |-> FALSE,
     refresh |-> "none",
     resend |-> FALSE, repeat |-> FALSE, disturbed |-> FALSE,
     cleanups |-> 0]

(* The environment a pass saw: used to tell whether two passes in a row    *)
(* were given the same answers.                                            *)
Seen(p) == <<p.nodeGet, p.obs.call, p.obs.answer, p.obs.k8sReady>>

(* A pass that returns before computing any status: not found, deletion,   *)
(* a failed finalizer update, an already completed record.                 *)
EarlyReturn_NoError(r, branch, finalizerUpdate, err) ==
    [IdlePass EXCEPT !.phase = "done", !.branch = branch, !.found = r.exists,
                     !.deleting = r.deleting, !.hadFinalizer = r.finalizer,
                     !.finalizerUpdate = finalizerUpdate,
                     !.orig = r.status, !.upd = r.status, !.err = FALSE]

EarlyReturn(r, branch, finalizerUpdate, err) ==
    [IdlePass EXCEPT !.phase = "done", !.branch = branch, !.found = r.exists,
                     !.deleting = r.deleting, !.hadFinalizer = r.finalizer,
                     !.finalizerUpdate = finalizerUpdate,
                     !.orig = r.status, !.upd = r.status, !.err = err]

(* rebootnode_controller.go:99-127: write only when the status changed *)
StatusChanged_ConditionsOnly(original, updated) ==
    original.conditions # updated.conditions

StatusChanged(original, updated) == original # updated

(* rebootnode_controller.go:186-451, from the deep copy on *)
Compute(r, finalizerUpdate, nodeGet, nodeConds, sendAns, readyAns, t) ==
    LET original == r.status
        st == SetStartTime(SetInitialConditions(original, t), t)
        base == [IdlePass EXCEPT !.found = TRUE, !.hadFinalizer = r.finalizer,
                                 !.finalizerUpdate = finalizerUpdate,
                                 !.orig = original, !.upd = st]
        Finish(o, get) ==
            [base EXCEPT !.branch = o.branch, !.obs = o.obs, !.upd = o.upd,
                         !.result = o.result, !.metrics = o.metrics,
                         !.nodeGet = get,
                         !.phase = IF StatusChanged(original, o.upd)
                                   THEN "writing" ELSE "done",
                         !.ret = IF StatusChanged(original, o.upd)
                                 THEN 0 ELSE o.result]
        (* r.Config.ManualMode with a nil r.Config (250, 366): the pass     *)
        (* panics.  The controller runtime turns the panic into an error of *)
        (* the pass, or the process dies; nothing is written either way.    *)
        Panicked(s) ==
            [base EXCEPT !.phase = "done", !.branch = "panic", !.upd = s,
                         !.nodeGet = nodeGet, !.err = TRUE]
    IN  IF MaxRetriesReached(st) THEN Finish(MaxRetriesBranch(st, t), "none")
        ELSE IF nodeGet = "notfound"
        THEN [base EXCEPT !.phase = "done", !.branch = "nodeNotFound",
                          !.nodeGet = nodeGet]
        ELSE IF nodeGet = "error"
        THEN [base EXCEPT !.phase = "done", !.branch = "nodeGetFailed",
                          !.nodeGet = nodeGet, !.err = TRUE]
        ELSE IF IsRebootInProgress(st)
        THEN IF ~cfg.present THEN Panicked(MonitoringAttempt(st))
             ELSE Finish(MonitoringBranch(st, nodeConds, readyAns, t),
                         nodeGet)
        ELSE IF ~cfg.present /\ ~SignalAlreadySent(st) THEN Panicked(st)
        ELSE Finish(SignalBranch(st, sendAns, t), nodeGet)

(* rebootnode_controller.go:154: !rebootNode.DeletionTimestamp.IsZero() *)
DeletionRequested_Never(r) == FALSE

DeletionRequested(r) == r.deleting

(* rebootnode_controller.go:144-184 and on: the pass up to its status write *)
Reconcile(r, updateOk, nodeGet, nodeConds, sendAns, readyAns, t) ==
    IF ~r.exists THEN EarlyReturn(r, "notFound", "none", FALSE)
    ELSE IF DeletionRequested(r)
    THEN IF r.finalizer
         THEN EarlyReturn(r, "deletion",
                          IF updateOk THEN "removed" ELSE "failed", ~updateOk)
         ELSE EarlyReturn(r, "deletion", "none", FALSE)
    ELSE IF ~r.finalizer /\ ~updateOk
    THEN EarlyReturn(r, "finalizerFailed", "failed", TRUE)
    ELSE IF AlreadyCompleted(r.status)
    THEN EarlyReturn(r, "completed",
                     IF r.finalizer THEN "none" ELSE "added", FALSE)
    ELSE Compute(r, IF r.finalizer THEN "none" ELSE "added",
                 nodeGet, nodeConds, sendAns, readyAns, t)

(* The store after the pass's finalizer Update: with the marker removed    *)
(* from a record being deleted, the store drops the record unless another  *)
(* holder (a foreign finalizer) still keeps it.                            *)
AfterFinalizerUpdate(r, p, held) ==
    IF p.finalizerUpdate = "removed"
    THEN IF held THEN [r EXCEPT !.finalizer = FALSE] ELSE Absent
    ELSE IF p.finalizerUpdate = "added" THEN [r EXCEPT !.finalizer = TRUE]
    ELSE r

Min(a, b) == IF a < b THEN a ELSE b

(* calm after pass p has returned: a pass that failed, or during which the *)
(* record was changed from outside, is followed by no "second" pass.       *)
PassEnded(p) == IF p.err \/ p.disturbed THEN 0 ELSE Min(calm + 1, 2)

(* The clock: a pass starts some time after the event before it and reads  *)
(* the clock once.                                                         *)
Advances == { k * TickSeconds : k \in 0..MaxTicks }

----------------------------------------------------------------------------
(* Actions *)

CleanupRan(p) == p.branch = "deletion" /\ p.finalizerUpdate # "none"

ReconcileBegin(updateOk, held, nodeGet, nodeConds, sendAns, readyAns, dt) ==
    /\ pass.phase # "writing"
    /\ now + dt <= MaxTicks * TickSeconds
    /\ pass' =
         LET c == Reconcile(rec, updateOk, nodeGet, nodeConds, sendAns,
                            readyAns, now + dt)
         IN  [c EXCEPT
                !.resend = signalled /\ c.obs.call = "SendRebootSignal",
                !.repeat = calm >= 1 /\ Seen(c) = Seen(pass),
                !.deleting = rec.exists /\ rec.deleting,
                !.cleanups = IF CleanupRan(c) THEN Min(pass.cleanups + 1, 2)
                             ELSE 0]
    /\ pass'.upd.consecutiveFailures <= MaxFailures
    /\ rec' = AfterFinalizerUpdate(rec, pass', held)
    /\ calm' = IF pass'.phase = "done" THEN PassEnded(pass') ELSE calm
    /\ signalled' = (signalled \/
          (pass'.obs.call = "SendRebootSignal" /\ pass'.obs.answer = "ok"))
    /\ now' = now + dt
    /\ UNCHANGED <<cfg, aux>>

(* updateRebootNodeStatus, rebootnode_controller.go:100-126 (and the same  *)
(* steps inline at 218-233), once the status is known to have changed:     *)
(* the refresh Get, then Status().Update on the refreshed object.  A       *)
(* record that is gone answers the refresh with not-found; `outcome` is    *)
(* what the store answers for a record that exists.                        *)
updateRebootNodeStatus_NotFoundIsError(p, exists, outcome) ==
    IF exists /\ outcome = "ok"
    THEN [p EXCEPT !.phase = "done", !.refresh = "ok", !.ret = p.result,
                   !.wrote = TRUE]
    ELSE [p EXCEPT !.phase = "done", !.ret = 0, !.err = TRUE,
                   !.refresh = IF ~exists THEN "notfound"
                               ELSE IF outcome = "refreshError" THEN "error"
                               ELSE "ok"]

updateRebootNodeStatus_SwallowsError(p, exists, outcome) ==
    IF ~exists
    THEN [p EXCEPT !.phase = "done", !.refresh = "notfound", !.ret = 0]
    ELSE [p EXCEPT !.phase = "done", !.ret = p.result,
                   !.wrote = (outcome = "ok"),
                   !.refresh = IF outcome = "refreshError" THEN "error"
                               ELSE "ok"]

updateRebootNodeStatus(p, exists, outcome) ==
    IF ~exists
    THEN [p EXCEPT !.phase = "done", !.refresh = "notfound", !.ret = 0]
    ELSE IF outcome = "refreshError"
    THEN [p EXCEPT !.phase = "done", !.refresh = "error", !.ret = 0,
                   !.err = TRUE]
    ELSE IF outcome = "updateError"
    THEN [p EXCEPT !.phase = "done", !.refresh = "ok", !.ret = 0,
                   !.err = TRUE]
    ELSE [p EXCEPT !.phase = "done", !.refresh = "ok", !.ret = p.result,
                   !.wrote = TRUE]

ReconcileWrite(outcome) ==
    /\ pass.phase = "writing"
    /\ pass' = updateRebootNodeStatus(pass, rec.exists, outcome)
    /\ rec' = IF pass'.wrote THEN [rec EXCEPT !.status = pass.upd] ELSE rec
    /\ calm' = PassEnded(pass')
    /\ UNCHANGED <<cfg, now, signalled, aux>>

(* The controller process dies after the actuator call and before the      *)
(* status write; the next delivery starts from the persisted record.       *)
ReconcilerRestart ==
    /\ pass.phase = "writing"
    /\ pass' = [IdlePass EXCEPT !.phase = "crashed"]
    /\ calm' = 0
    /\ UNCHANGED <<rec, cfg, now, signalled, aux>>

(* An external change of the record: the pass in flight goes on with its   *)
(* stale copy, and a finished pass is no longer the last thing that        *)
(* happened to the record.                                                 *)
Disturbed(p) ==
    IF p.phase = "writing"
    THEN [p EXCEPT !.repeat = FALSE, !.disturbed = TRUE]
    ELSE IdlePass

(* An external party asks for the record's deletion: the store marks it,   *)
(* or drops it at once when neither the marker nor another holder blocks   *)
(* the deletion.                                                           *)
RequestDeletion(held) ==
    /\ rec.exists /\ ~rec.deleting
    /\ rec' = IF rec.finalizer \/ held THEN [rec EXCEPT !.deleting = TRUE]
              ELSE Absent
    /\ calm' = 0
    /\ pass' = Disturbed(pass)
    /\ UNCHANGED <<cfg, now, signalled, aux>>

(* An external party removes the record although the marker is on it (the  *)
(* finalizers are stripped and the object deleted): the store drops it.    *)
ForcedRemoval ==
    /\ rec.exists
    /\ rec' = Absent
    /\ calm' = 0
    /\ pass' = Disturbed(pass)
    /\ UNCHANGED <<cfg, now, signalled, aux>>

(* The outside actor sent the reboot signal and records it: in manual mode, *)
(* or for a reconciler that has no configuration and sends none itself.    *)
ExternalSignalSent(ref) ==
    /\ cfg.manualMode \/ ~cfg.present
    /\ rec.exists /\ ~rec.deleting
    /\ rec.status.completionTime = Nil
    /\ ~SignalAlreadySent(rec.status)
    /\ rec' = [rec EXCEPT !.status =
                 SetCondition(@, Condition("SignalSent", "True", "Succeeded",
                                           ref, now))]
    /\ calm' = 0
    /\ pass' = Disturbed(pass)
    /\ UNCHANGED <<cfg, now, signalled, aux>>

----------------------------------------------------------------------------
(* The specification *)

NoBackoff == [n1 |-> 0, d1 |-> 0, n2 |-> 0, d2 |-> 0]

RecordKeys == {"reboot-a", "reboot-b"}

NoFleet ==
    [store |-> [k \in RecordKeys |-> FreshRecord],
     passes |-> [k \in RecordKeys |-> IdlePass]]

(* CachedDetector, kata/cache.go:25-31, with the clock and the calls of two *)
(* goroutines; "nil" is the nil *DetectionResult, detected tells whether a *)
(* detection has succeeded so far.                                         *)
EmptyCache == [cachedResult |-> "nil", cachedAt |-> Nil]

NoCall ==
    [pc |-> "idle", result |-> "nil", err |-> FALSE, invoked |-> FALSE,
     checkedAt |-> 0, afterSuccess |-> FALSE,
     before |-> EmptyCache, after |-> EmptyCache,
     together |-> FALSE, last |-> FALSE]

Goroutines == {"g1", "g2"}

NoCache ==
    [cacheTTL |-> 0, clock |-> 0, cachedResult |-> "nil", cachedAt |-> Nil,
     detected |-> FALSE, calls |-> [g \in Goroutines |-> NoCall]]

(* The number of passes delivered for the record since SignalSent=True was *)
(* persisted.                                                              *)
NoMonitor == [passes |-> 0]

(* detector.go:46-50 *)
DetectionMethodKubernetesAPI == "kubernetes-api"

DetectionMethodRuntimeClass == "runtime-class"

DetectionMethodNone == "none"

DetectionMethods == {DetectionMethodKubernetesAPI, DetectionMethodRuntimeClass}

(* detector.go:229: make(chan DetectionMethod, 2) *)
ResultChanCap == 2

(* detector.go:168-173: the DetectionResult IsKataEnabled starts from.     *)
NewDetectionResult ==
    [IsKata |-> FALSE, Method |-> DetectionMethodNone,
     AttemptedMethods |-> <<>>, Errors |-> 0]

(* One call of Detector.IsKataEnabled from the point where                 *)
(* runConcurrentDetection has launched its goroutines: the node the call   *)
(* fetched (does its metadata show Kata), each goroutine's position and    *)
(* finding, the result channel, the two contexts, the waiter's position in *)
(* waitForDetectionResult, and the DetectionResult they share.  late is    *)
(* set when a goroutine writes the result after the call has returned it.  *)
NoDetection ==
    [active |-> FALSE, nodeKata |-> FALSE,
     pc |-> [m \in DetectionMethods |-> "launched"],
     found |-> [m \in DetectionMethods |-> FALSE],
     resultChan |-> <<>>, closed |-> FALSE,
     ctxDone |-> FALSE, gctxDone |-> FALSE,
     waiter |-> [pc |-> "entering", chosen |-> "", m |-> ""],
     ret |-> "pending", result |-> NewDetectionResult, late |-> FALSE]

(* The labels of one node (a missing key reads as ""), and the last pod     *)
(* event the labeler handled for it.                                       *)
NoLabels == [k \in {} |-> ""]

NoEvent ==
    [kind |-> "none", kataDetected |-> FALSE, before |-> NoLabels,
     expectedDCGMVersion |-> "", expectedDriverLabel |-> "",
     expectedKataLabel |-> "", updated |-> FALSE, err |-> FALSE,
     detections |-> 0, recent |-> FALSE]

(* clock is the labeler's clock in seconds, detectedAt the time of the     *)
(* last Kata detection for the node that succeeded.                        *)
NoLabeler ==
    [labels |-> NoLabels, event |-> NoEvent, clock |-> 0, detectedAt |-> Nil]

(* A stored RebootNode as the status writer sees it: the spec (the node    *)
(* name), the status (abstracted to the number of status writes it         *)
(* carries) and the resourceVersion the store checks on an update.         *)
StoredObject(spec, status, rv) ==
    [spec |-> spec, status |-> status, resourceVersion |-> rv]

NoWriter ==
    [store |-> StoredObject("node-a", 0, 0), phase |-> "idle",
     rebootNode |-> StoredObject("node-a", 0, 0),
     freshRebootNode |-> StoredObject("node-a", 0, 0),
     sent |-> StoredObject("node-a", 0, 0),
     err |-> "none"]

Init ==
    /\ rec = FreshRecord
    /\ cfg \in [present : {TRUE}, manualMode : BOOLEAN,
                 timeout : ConfiguredTimeouts] \cup {NilConfig}
    /\ now = 0
    /\ pass = IdlePass
    /\ calm = 0
    /\ signalled = FALSE
    /\ backoff = NoBackoff
    /\ writer = NoWriter
    /\ fleet = NoFleet
    /\ cache = NoCache
    /\ labeler = NoLabeler
    /\ monitor = NoMonitor
    /\ detect = NoDetection

(* The answers of the environment that the pass on record r can depend on: *)
(* the outcome of the finalizer Update when the pass makes one, the node    *)
(* when the pass reads it, the answer to the actuator call the pass makes.  *)
Probe(r) ==
    Reconcile(r, TRUE, "found", <<>>, [kind |-> "timeout", ref |-> ""],
              "timeout", now)

UpdateOutcomes(r) ==
    IF Probe(r).finalizerUpdate = "none" THEN {TRUE} ELSE BOOLEAN

HolderOutcomes(r) ==
    IF Probe(r).finalizerUpdate = "removed" THEN BOOLEAN ELSE {FALSE}

NodeOutcomes(r) ==
    IF Probe(r).nodeGet = "none" THEN { <<"found", <<>> >> }
    ELSE { <<"notfound", <<>> >>, <<"error", <<>> >> }
            \cup { <<"found", c>> : c \in NodeConditionLists }

SendOutcomes(r) ==
    IF Probe(r).obs.call = "SendRebootSignal" THEN SendAnswers
    ELSE { [kind |-> "timeout", ref |-> ""] }

ReadyOutcomes(r) ==
    IF Probe(r).obs.call = "IsNodeReady" THEN ReadyAnswers ELSE {"timeout"}

Next ==
    \/ \E updateOk \in UpdateOutcomes(rec), held \in HolderOutcomes(rec),
          node \in NodeOutcomes(rec), sendAns \in SendOutcomes(rec),
          readyAns \in ReadyOutcomes(rec), dt \in Advances :
            ReconcileBegin(updateOk, held, node[1], node[2], sendAns,
                           readyAns, dt)
    \/ \E outcome \in {"ok", "refreshError", "updateError"} :
            ReconcileWrite(outcome)
    \/ ReconcilerRestart
    \/ \E held \in BOOLEAN : RequestDeletion(held)
    \/ ForcedRemoval
    \/ \E ref \in RequestRefs : ExternalSignalSent(ref)

Spec == Init /\ [][Next]_vars

(* The backoff policy on its own: inputs drawn from the non-negative int32 *)
(* values, two evaluations kept side by side.                              *)
Int32Max == (2^30 - 1) + 2^30

BackoffInputs == (0..MaxBackoffInput) \cup {Int32Max}

Evaluated(n1, n2) ==
    [n1 |-> n1, d1 |-> getNextRequeueDelay(n1),
     n2 |-> n2, d2 |-> getNextRequeueDelay(n2)]

InitBackoff ==
    /\ rec = FreshRecord
    /\ cfg = [present |-> TRUE, manualMode |-> FALSE, timeout |-> 0]
    /\ now = 0
    /\ pass = IdlePass
    /\ calm = 0
    /\ signalled = FALSE
    /\ backoff \in { Evaluated(n, n) : n \in BackoffInputs }
    /\ writer = NoWriter
    /\ fleet = NoFleet
    /\ cache = NoCache
    /\ labeler = NoLabeler
    /\ monitor = NoMonitor
    /\ detect = NoDetection

EvaluateBackoff(n1, n2) ==
    /\ backoff' = Evaluated(n1, n2)
    /\ UNCHANGED <<rec, cfg, now, pass, calm, signalled, writer, fleet,
                   cache, labeler, monitor, detect>>

NextBackoff == \E n1 \in BackoffInputs, n2 \in BackoffInputs : EvaluateBackoff(n1, n2)

SpecBackoff == InitBackoff /\ [][NextBackoff]_vars

----------------------------------------------------------------------------
(* The status writer against a store that versions its objects: the pass   *)
(* reads the record (149), an external party may edit the record's spec at *)
(* any time, and updateRebootNodeStatus refreshes the record (102), puts   *)
(* the computed status on the refreshed object (113) and sends it with     *)
(* Status().Update (115).  The store answers an update whose               *)
(* resourceVersion is not the current one with a conflict, and the status  *)
(* subresource takes only the status of the object it is sent.             *)
MaxSpecEdits == 3

MaxStatusWrites == 2

NodeNames == {"node-a", "node-b"}

(* rebootnode_controller.go:113 *)
ObjectToUpdate_StaleCopy(updated, fresh) ==
    updated

ObjectToUpdate(updated, fresh) ==
    [fresh EXCEPT !.status = updated.status]

(* Status().Update as the store applies it *)
StatusUpdateAccepted(store, obj) ==
    obj.resourceVersion = store.resourceVersion

StoreAfterStatusUpdate(store, obj) ==
    IF StatusUpdateAccepted(store, obj)
    THEN [store EXCEPT !.status = obj.status,
                       !.resourceVersion = @ + 1]
    ELSE store

(* rebootnode_controller.go:149 and 186-450: the record is read and the    *)
(* pass changes the status of its copy.                                    *)
WriterRead ==
    /\ writer.phase \in {"idle", "done"}
    /\ writer.store.status < MaxStatusWrites
    /\ writer' = [writer EXCEPT
                    !.phase = "read", !.err = "none",
                    !.rebootNode = [writer.store EXCEPT !.status = @ + 1]]
    /\ UNCHANGED <<rec, cfg, now, pass, calm, signalled, backoff, fleet,
                   cache, labeler, monitor, detect>>

(* An external party edits the spec of the stored record. *)
ExternalSpecEdit(name) ==
    /\ writer.store.spec # name
    /\ writer.store.resourceVersion < MaxSpecEdits + writer.store.status
    /\ writer' = [writer EXCEPT
                    !.store = [@ EXCEPT !.spec = name,
                                        !.resourceVersion = @ + 1]]
    /\ UNCHANGED <<rec, cfg, now, pass, calm, signalled, backoff, fleet,
                   cache, labeler, monitor, detect>>

(* rebootnode_controller.go:102-113 *)
WriterRefresh ==
    /\ writer.phase = "read"
    /\ writer' = [writer EXCEPT
                    !.phase = "refreshed",
                    !.freshRebootNode = writer.store,
                    !.sent = ObjectToUpdate(writer.rebootNode, writer.store)]
    /\ UNCHANGED <<rec, cfg, now, pass, calm, signalled, backoff, fleet,
                   cache, labeler, monitor, detect>>

(* rebootnode_controller.go:115-119 *)
WriterUpdate ==
    /\ writer.phase = "refreshed"
    /\ writer' = [writer EXCEPT
                    !.phase = "done",
                    !.store = StoreAfterStatusUpdate(@, writer.sent),
                    !.err = IF StatusUpdateAccepted(writer.store, writer.sent)
                            THEN "none" ELSE "conflict"]
    /\ UNCHANGED <<rec, cfg, now, pass, calm, signalled, backoff, fleet,
                   cache, labeler, monitor, detect>>

InitWrite ==
    /\ rec = FreshRecord
    /\ cfg = [present |-> TRUE, manualMode |-> FALSE, timeout |-> 0]
    /\ now = 0
    /\ pass = IdlePass
    /\ calm = 0
    /\ signalled = FALSE
    /\ backoff = NoBackoff
    /\ writer \in { [NoWriter EXCEPT !.store = StoredObject(n, 0, 0)] :
                        n \in NodeNames }
    /\ fleet = NoFleet
    /\ cache = NoCache
    /\ labeler = NoLabeler
    /\ monitor = NoMonitor
    /\ detect = NoDetection

NextWrite ==
    \/ WriterRead
    \/ \E name \in NodeNames : ExternalSpecEdit(name)
    \/ WriterRefresh
    \/ WriterUpdate

SpecWrite == InitWrite /\ [][NextWrite]_vars

----------------------------------------------------------------------------
(* Two records reconciled by concurrent workers of the same reconciler,    *)
(* in automatic mode with the node present and not Ready: each delivery    *)
(* names one record (req.NamespacedName), the passes of the two records    *)
(* interleave step by step.                                                *)
MaxFleetRetries == 2

(* rebootnode_controller.go:149: r.Get(ctx, req.NamespacedName, ...) *)
GetRecord_IgnoresKey(store, key) == store["reboot-a"]

GetRecord(store, key) == store[key]

(* rebootnode_controller.go:102-115: the refreshed object of the same key  *)
(* gets the status.                                                        *)
StatusUpdated(store, key, status) ==
    [store EXCEPT ![key] = [@ EXCEPT !.status = status]]

FleetBegin(key, sendAns, readyAns) ==
    LET r == GetRecord(fleet.store, key)
        p == Reconcile(r, TRUE, "found", <<>>, sendAns, readyAns, now)
    IN  /\ fleet.passes[key].phase # "writing"
        /\ p.upd.consecutiveFailures <= MaxFailures
        /\ p.upd.retryCount <= MaxFleetRetries
        /\ fleet' = [store |-> [fleet.store EXCEPT
                                  ![key] = AfterFinalizerUpdate(@, p, FALSE)],
                     passes |-> [fleet.passes EXCEPT ![key] = p]]
        /\ UNCHANGED <<rec, cfg, now, pass, calm, signalled, backoff, writer,
                       cache, labeler, monitor, detect>>

FleetWrite(key) ==
    LET p == updateRebootNodeStatus(fleet.passes[key],
                                    GetRecord(fleet.store, key).exists, "ok")
    IN  /\ fleet.passes[key].phase = "writing"
        /\ fleet' = [store |-> IF p.wrote
                               THEN StatusUpdated(fleet.store, key, p.upd)
                               ELSE fleet.store,
                     passes |-> [fleet.passes EXCEPT ![key] = p]]
        /\ UNCHANGED <<rec, cfg, now, pass, calm, signalled, backoff, writer,
                       cache, labeler, monitor, detect>>

InitFleet ==
    /\ rec = FreshRecord
    /\ cfg = [present |-> TRUE, manualMode |-> FALSE, timeout |-> 0]
    /\ now = 0
    /\ pass = IdlePass
    /\ calm = 0
    /\ signalled = FALSE
    /\ backoff = NoBackoff
    /\ writer = NoWriter
    /\ fleet = NoFleet
    /\ cache = NoCache
    /\ labeler = NoLabeler
    /\ monitor = NoMonitor
    /\ detect = NoDetection

FleetSendAnswers ==
    { [kind |-> "ok", ref |-> "ref-a"], [kind |-> "timeout", ref |-> ""] }

FleetReadyAnswers == {"notready", "timeout"}

NextFleet ==
    \/ \E key \in RecordKeys, sendAns \in FleetSendAnswers,
          readyAns \in FleetReadyAnswers :
            FleetBegin(key, sendAns, readyAns)
    \/ \E key \in RecordKeys : FleetWrite(key)

SpecFleet == InitFleet /\ [][NextFleet]_vars

----------------------------------------------------------------------------
(* The reconciler in automatic mode under a fair scheduler: the node       *)
(* exists, nobody deletes the record, a pass that returned a requeue or an *)
(* error is delivered again, and a pass whose status write failed is       *)
(* followed by a pass whose status write succeeds (calm is 0 after a       *)
(* failed pass).  getNextRequeueDelay gives the same delay for every    *)
(* ConsecutiveFailures from MaxFailures on (MaxFailures >= 3), so the      *)
(* store keeps the counter saturated at MaxFailures.                       *)
Saturated(st) ==
    [st EXCEPT !.consecutiveFailures = Min(@, MaxFailures)]

(* The work queue: the first delivery, a RequeueAfter, a retry after an    *)
(* error.                                                                  *)
DeliveryDue ==
    \/ pass.phase = "idle"
    \/ pass.phase = "done" /\ (pass.err \/ pass.ret > 0)

LiveDeliver(nodeConds, sendAns, readyAns, dt) ==
    /\ DeliveryDue
    /\ now + dt <= MaxTicks * TickSeconds
    /\ pass' = Reconcile(rec, TRUE, "found", nodeConds, sendAns, readyAns,
                         now + dt)
    /\ rec' = AfterFinalizerUpdate(rec, pass', FALSE)
    /\ now' = now + dt
    /\ calm' = IF pass'.phase = "done" THEN PassEnded(pass') ELSE calm
    /\ UNCHANGED <<cfg, signalled, aux>>

LiveWrite(outcome) ==
    /\ pass.phase = "writing"
    /\ outcome # "ok" => calm > 0
    /\ pass' = updateRebootNodeStatus(pass, rec.exists, outcome)
    /\ rec' = IF pass'.wrote THEN [rec EXCEPT !.status = Saturated(pass.upd)]
              ELSE rec
    /\ calm' = PassEnded(pass')
    /\ UNCHANGED <<cfg, now, signalled, aux>>

InitLive ==
    /\ rec = FreshRecord
    /\ cfg \in [present : {TRUE}, manualMode : {FALSE},
                 timeout : ConfiguredTimeouts]
    /\ now = 0
    /\ pass = IdlePass
    /\ calm = 0
    /\ signalled = FALSE
    /\ backoff = NoBackoff
    /\ writer = NoWriter
    /\ fleet = NoFleet
    /\ cache = NoCache
    /\ labeler = NoLabeler
    /\ monitor = NoMonitor
    /\ detect = NoDetection

Delivered ==
    \E node \in NodeOutcomes(rec), sendAns \in SendOutcomes(rec),
       readyAns \in ReadyOutcomes(rec), dt \in Advances :
         /\ node[1] = "found"
         /\ LiveDeliver(node[2], sendAns, readyAns, dt)

Written ==
    \E outcome \in {"ok", "refreshError", "updateError"} : LiveWrite(outcome)

NextLive == Delivered \/ Written

SpecLive ==
    /\ InitLive /\ [][NextLive]_vars
    /\ WF_vars(Delivered)
    /\ WF_vars(Written)

----------------------------------------------------------------------------
(* Monitoring under the conditions of a healthy cluster: the node exists,  *)
(* nobody deletes the record, every requested requeue (and the first       *)
(* delivery, and the event of the outside actor's write) is delivered and  *)
(* every status write succeeds.  The passes delivered once SignalSent=True *)
(* is persisted are counted.  As in SpecLive the store keeps               *)
(* ConsecutiveFailures saturated at MaxFailures.                           *)
BoundedDeliver(nodeConds, sendAns, readyAns, dt) ==
    /\ DeliveryDue
    /\ now + dt <= MaxTicks * TickSeconds
    /\ monitor.passes <= MaxRebootRetries + 1
    /\ pass' = Reconcile(rec, TRUE, "found", nodeConds, sendAns, readyAns,
                         now + dt)
    /\ rec' = AfterFinalizerUpdate(rec, pass', FALSE)
    /\ now' = now + dt
    /\ calm' = IF pass'.phase = "done" THEN PassEnded(pass') ELSE calm
    /\ monitor' = IF SignalAlreadySent(rec.status)
                  THEN [monitor EXCEPT !.passes = @ + 1]
                  ELSE monitor
    /\ UNCHANGED <<cfg, signalled, backoff, writer, fleet, cache, labeler,
                   detect>>

BoundedWrite ==
    /\ pass.phase = "writing"
    /\ pass' = updateRebootNodeStatus(pass, rec.exists, "ok")
    /\ rec' = [rec EXCEPT !.status = Saturated(pass.upd)]
    /\ calm' = PassEnded(pass')
    /\ UNCHANGED <<cfg, now, signalled, aux>>

(* Manual mode: the outside actor records the signal it sent while no pass *)
(* is in flight; the change of the record is an event for the reconciler.  *)
BoundedExternalSignal(ref) ==
    /\ cfg.manualMode
    /\ pass.phase = "done"
    /\ rec.exists /\ rec.status.completionTime = Nil
    /\ ~SignalAlreadySent(rec.status)
    /\ rec' = [rec EXCEPT !.status =
                 SetCondition(@, Condition("SignalSent", "True", "Succeeded",
                                           ref, now))]
    /\ pass' = IdlePass
    /\ calm' = 0
    /\ UNCHANGED <<cfg, now, signalled, aux>>

InitBounded ==
    /\ rec = FreshRecord
    /\ cfg \in [present : {TRUE}, manualMode : BOOLEAN,
                 timeout : ConfiguredTimeouts]
    /\ now = 0
    /\ pass = IdlePass
    /\ calm = 0
    /\ signalled = FALSE
    /\ backoff = NoBackoff
    /\ writer = NoWriter
    /\ fleet = NoFleet
    /\ cache = NoCache
    /\ labeler = NoLabeler
    /\ monitor = NoMonitor
    /\ detect = NoDetection

NextBounded ==
    \/ \E node \in NodeOutcomes(rec), sendAns \in SendOutcomes(rec),
          readyAns \in ReadyOutcomes(rec), dt \in Advances :
            /\ node[1] = "found"
            /\ BoundedDeliver(node[2], sendAns, readyAns, dt)
    \/ BoundedWrite
    \/ \E ref \in RequestRefs : BoundedExternalSignal(ref)

SpecBounded == InitBounded /\ [][NextBounded]_vars

----------------------------------------------------------------------------
(* CachedDetector (health-monitors/syslog-health-monitor/pkg/kata/         *)
(* cache.go): two goroutines call IsKataEnabled and InvalidateCache on one *)
(* detector while the clock advances.  The read-locked fast path and the   *)
(* write-locked slow path are one step each; the underlying detector       *)
(* answers with a result or with an error.                                 *)
MaxClock == 3

CacheTTLs == {0, 2}

DetectionResults == {"kata", "no-kata"}

DetectorAnswers == DetectionResults \cup {"error"}

(* cache.go:52 and 65: cd.cachedResult != nil &&                           *)
(* time.Since(cd.cachedAt) < cd.cacheTTL                                   *)
CacheFresh_IgnoresTTL(c) == c.cachedResult # "nil"

CacheFresh(c) ==
    /\ c.cachedResult # "nil"
    /\ c.clock - c.cachedAt[1] < c.cacheTTL

Cached(c) == [cachedResult |-> c.cachedResult, cachedAt |-> c.cachedAt]

(* cache.go:65: the second check, made under the write lock *)
DoubleCheck_Skipped(c) == FALSE

DoubleCheck(c) == CacheFresh(c)

(* The calls after goroutine g's call has returned as `call`: it is the    *)
(* last one that returned.                                                 *)
AfterReturn(g, call) ==
    [h \in Goroutines |->
        IF h = g THEN [call EXCEPT !.pc = "returned", !.last = TRUE]
        ELSE [cache.calls[h] EXCEPT !.last = FALSE]]

(* The calls after goroutine g's call has missed in the fast path: it      *)
(* waits for the write lock, together with a call that already waits.      *)
AfterMiss(g) ==
    LET crowd == \E h \in Goroutines \ {g} : cache.calls[h].pc = "locking"
    IN  [h \in Goroutines |->
            IF h = g
            THEN [NoCall EXCEPT !.pc = "locking", !.together = crowd]
            ELSE IF cache.calls[h].pc = "locking"
            THEN [cache.calls[h] EXCEPT !.together = TRUE]
            ELSE cache.calls[h]]

(* A call that returns the cached result, from either path *)
CacheHit(g) ==
    [cache.calls[g] EXCEPT
        !.result = cache.cachedResult, !.err = FALSE, !.invoked = FALSE,
        !.checkedAt = cache.clock, !.afterSuccess = cache.detected,
        !.before = Cached(cache), !.after = Cached(cache)]

(* cache.go:50-58: the fast path under the read lock *)
FastPath(g) ==
    /\ cache.calls[g].pc \in {"idle", "returned"}
    /\ cache' = [cache EXCEPT !.calls =
          IF CacheFresh(cache)
          THEN AfterReturn(g, [CacheHit(g) EXCEPT !.together = FALSE])
          ELSE AfterMiss(g)]
    /\ UNCHANGED <<rec, cfg, now, pass, calm, signalled, backoff, writer,
                   fleet, labeler, monitor, detect>>

(* cache.go:60-76: the slow path under the write lock *)
SlowPath(g, answer) ==
    /\ cache.calls[g].pc = "locking"
    /\ cache' =
         IF DoubleCheck(cache)
         THEN [cache EXCEPT !.calls = AfterReturn(g, CacheHit(g))]
         ELSE IF answer # "error"
         THEN [cache EXCEPT
                 !.cachedResult = answer, !.cachedAt = At(cache.clock),
                 !.detected = TRUE,
                 !.calls = AfterReturn(g,
                   [cache.calls[g] EXCEPT
                      !.result = answer, !.err = FALSE, !.invoked = TRUE,
                      !.checkedAt = cache.clock,
                      !.afterSuccess = cache.detected,
                      !.before = Cached(cache),
                      !.after = [cachedResult |-> answer,
                                 cachedAt |-> At(cache.clock)]])]
         ELSE [cache EXCEPT !.calls = AfterReturn(g,
                 [cache.calls[g] EXCEPT
                    !.result = "nil", !.err = TRUE, !.invoked = TRUE,
                    !.checkedAt = cache.clock,
                    !.afterSuccess = cache.detected,
                    !.before = Cached(cache), !.after = Cached(cache)])]
    /\ UNCHANGED <<rec, cfg, now, pass, calm, signalled, backoff, writer,
                   fleet, labeler, monitor, detect>>

(* cache.go:81-86 *)
InvalidateCache ==
    /\ cache.cachedResult # "nil"
    /\ cache' = [cache EXCEPT !.cachedResult = "nil", !.cachedAt = Nil]
    /\ UNCHANGED <<rec, cfg, now, pass, calm, signalled, backoff, writer,
                   fleet, labeler, monitor, detect>>

ClockTick ==
    /\ cache.clock < MaxClock
    /\ cache' = [cache EXCEPT !.clock = @ + 1]
    /\ UNCHANGED <<rec, cfg, now, pass, calm, signalled, backoff, writer,
                   fleet, labeler, monitor, detect>>

(* cache.go:36-45: NewCachedDetector(detector, ttl) *)
InitCache ==
    /\ rec = FreshRecord
    /\ cfg = [present |-> TRUE, manualMode |-> FALSE, timeout |-> 0]
    /\ now = 0
    /\ pass = IdlePass
    /\ calm = 0
    /\ signalled = FALSE
    /\ backoff = NoBackoff
    /\ writer = NoWriter
    /\ fleet = NoFleet
    /\ cache \in { [NoCache EXCEPT !.cacheTTL = ttl] : ttl \in CacheTTLs }
    /\ labeler = NoLabeler
    /\ monitor = NoMonitor
    /\ detect = NoDetection

NextCache ==
    \/ \E g \in Goroutines : FastPath(g)
    \/ \E g \in Goroutines, answer \in DetectorAnswers : SlowPath(g, answer)
    \/ InvalidateCache
    \/ ClockTick

SpecCache == InitCache /\ [][NextCache]_vars

----------------------------------------------------------------------------
(* The labeler (labeler-module/pkg/labeler/labeler.go) handling the pod    *)
(* events of one node: it computes the expected DCGM version and driver    *)
(* label from the pods, detects Kata, and reconciles the three node labels *)
(* in updateNodeLabels.                                                    *)
DCGMVersionLabel == "nvsentinel.dgxc.nvidia.com/dcgm.version"

DriverInstalledLabel == "nvsentinel.dgxc.nvidia.com/driver.installed"

KataEnabledLabel == "nvsentinel.dgxc.nvidia.com/kata.enabled"

LabelValueTrue == "true"

LabelValueFalse == "false"

DCGMVersions == {"", "3.x", "4.x"}

DriverLabels == {"", LabelValueTrue}

KataAnswers == {LabelValueTrue, LabelValueFalse, "error"}

PodEventKinds == {"add", "update", "delete"}

MaxLabelerTicks == 2

LabelerTickSeconds == 600

(* labeler.go:255: 15*time.Minute *)
KataCacheTTL == 900

(* labeler.go:250-255: getKataLabelForNode builds a detector and a         *)
(* CachedDetector around it on every call; cache.go:36-45 leaves           *)
(* cachedResult nil.                                                       *)
NewCachedDetector(ttl, clock) ==
    [NoCache EXCEPT !.cacheTTL = ttl, !.clock = clock]

(* node.Labels[key] *)
LabelOf(labels, key) == IF key \in DOMAIN labels THEN labels[key] ELSE ""

(* delete(node.Labels, key) *)
WithoutLabel(labels, key) == [k \in DOMAIN labels \ {key} |-> labels[k]]

(* node.Labels[key] = value *)
WithLabel(labels, key, value) ==
    [k \in DOMAIN labels \cup {key} |->
        IF k = key THEN value ELSE labels[k]]

(* labeler.go:347-382, once per label *)
ReconciledLabel(labels, key, expected) ==
    IF LabelOf(labels, key) # expected
    THEN IF expected = "" THEN WithoutLabel(labels, key)
         ELSE WithLabel(labels, key, expected)
    ELSE labels

(* labeler.go:333-407: the labels of the node after a successful update *)
updateNodeLabels(labels, expectedDCGMVersion, expectedDriverLabel, expectedKataLabel) ==
    ReconciledLabel(
        ReconciledLabel(
            ReconciledLabel(labels, DCGMVersionLabel, expectedDCGMVersion),
            DriverInstalledLabel, expectedDriverLabel),
        KataEnabledLabel, expectedKataLabel)

(* labeler.go:432-439 and 466-473: the Kata label handed to                *)
(* updateNodeLabels                                                        *)
ExpectedKataLabel(answer) == IF answer = "error" THEN "" ELSE answer

(* handlePodEvent (445-476) and handlePodDeleteEvent (409-442): the        *)
(* expected DCGM version and driver label are computed from the pods of    *)
(* the node, Kata detection answers, and the node Update goes through or   *)
(* fails.                                                                  *)
HandlePodEvent(kind, dcgm, driver, answer, updateOk) ==
    LET cachedDetector == NewCachedDetector(KataCacheTTL, labeler.clock)
        hit == CacheFresh(cachedDetector)
        kata == IF hit THEN cachedDetector.cachedResult ELSE answer
        expectedKataLabel == ExpectedKataLabel(kata)
        wanted == updateNodeLabels(labeler.labels, dcgm, driver,
                                   expectedKataLabel)
    IN  /\ labeler' =
              [labels |-> IF updateOk THEN wanted ELSE labeler.labels,
               clock |-> labeler.clock,
               detectedAt |-> IF ~hit /\ kata # "error"
                              THEN At(labeler.clock) ELSE labeler.detectedAt,
               event |-> [kind |-> kind, kataDetected |-> kata # "error",
                          before |-> labeler.labels,
                          expectedDCGMVersion |-> dcgm,
                          expectedDriverLabel |-> driver,
                          expectedKataLabel |-> expectedKataLabel,
                          updated |-> updateOk /\ wanted # labeler.labels,
                          err |-> ~updateOk /\ wanted # labeler.labels,
                          detections |-> IF hit THEN 0 ELSE 1,
                          recent |->
                            /\ labeler.detectedAt # Nil
                            /\ labeler.clock - labeler.detectedAt[1]
                                 < KataCacheTTL]]
        /\ UNCHANGED <<rec, cfg, now, pass, calm, signalled, backoff, writer,
                       fleet, cache, monitor, detect>>

(* Time passes between two pod events *)
LabelerTick ==
    /\ labeler.clock < MaxLabelerTicks * LabelerTickSeconds
    /\ labeler' = [labeler EXCEPT !.clock = @ + LabelerTickSeconds]
    /\ UNCHANGED <<rec, cfg, now, pass, calm, signalled, backoff, writer,
                   fleet, cache, monitor, detect>>

InitLabeler ==
    /\ rec = FreshRecord
    /\ cfg = [present |-> TRUE, manualMode |-> FALSE, timeout |-> 0]
    /\ now = 0
    /\ pass = IdlePass
    /\ calm = 0
    /\ signalled = FALSE
    /\ backoff = NoBackoff
    /\ writer = NoWriter
    /\ fleet = NoFleet
    /\ cache = NoCache
    /\ labeler = NoLabeler
    /\ monitor = NoMonitor
    /\ detect = NoDetection

NextLabeler ==
    \/ \E kind \in PodEventKinds, dcgm \in DCGMVersions,
          driver \in DriverLabels, answer \in KataAnswers,
          updateOk \in BOOLEAN :
            HandlePodEvent(kind, dcgm, driver, answer, updateOk)
    \/ LabelerTick

SpecLabeler == InitLabeler /\ [][NextLabeler]_vars

----------------------------------------------------------------------------
(* Detector.IsKataEnabled: two detection goroutines, the goroutine that    *)
(* closes the result channel, and the waiter (detector.go).  A goroutine   *)
(* appends to the shared result under result.mu; the write is late when    *)
(* the call has already handed the result to its caller.  A select of the  *)
(* waiter that found nothing ready has parked it: the first case to become *)
(* ready is the one it wakes up with.                                      *)

(* detector.go:255-259, 294-298: the goroutine records its method in       *)
(* result.AttemptedMethods.                                                *)
RecordAttempt(m) ==
    /\ detect.active
    /\ detect.pc[m] = "launched"
    /\ detect' = [detect EXCEPT
            !.pc[m] = "detecting",
            !.result.AttemptedMethods = Append(@, m),
            !.late = (@ \/ detect.ret = "nil")]
    /\ UNCHANGED <<rec, cfg, now, pass, calm, signalled, backoff, writer,
                   fleet, cache, labeler, monitor>>

(* detector.go:261-262: checkNodeMetadata answers from the node the call   *)
(* fetched; detector.go:300, 316-324: detectViaRuntimeClass answers Kata,  *)
(* no Kata, or an error that is appended to result.Errors and ends the     *)
(* goroutine.                                                              *)
RunDetection(m, answer) ==
    /\ detect.active
    /\ detect.pc[m] = "detecting"
    /\ m = DetectionMethodKubernetesAPI =>
            answer = (IF detect.nodeKata THEN "kata" ELSE "plain")
    /\ detect' = [detect EXCEPT
            !.pc[m] = IF answer = "kata" THEN "reporting" ELSE "done",
            !.found[m] = (answer = "kata"),
            !.result.Errors = IF answer = "error" THEN @ + 1 ELSE @,
            !.late = IF answer = "error" THEN (@ \/ detect.ret = "nil") ELSE @]
    /\ UNCHANGED <<rec, cfg, now, pass, calm, signalled, backoff, writer,
                   fleet, cache, labeler, monitor>>

(* detector.go:274-275, 327-329: the send case of the goroutine's select.  *)
(* A parked waiter takes the value directly.                               *)
SendResult(m) ==
    /\ detect.active
    /\ detect.pc[m] = "reporting"
    /\ Len(detect.resultChan) < ResultChanCap
    /\ detect' = [detect EXCEPT
            !.pc[m] = "done",
            !.resultChan = IF detect.waiter.pc = "parked" THEN @ ELSE Append(@, m),
            !.waiter = IF detect.waiter.pc = "parked"
                         THEN [pc |-> "chosen", chosen |-> "recv", m |-> m]
                         ELSE @]
    /\ UNCHANGED <<rec, cfg, now, pass, calm, signalled, backoff, writer,
                   fleet, cache, labeler, monitor>>

(* detector.go:277, 330: the gctx.Done() case of the goroutine's select;   *)
(* with both cases ready the runtime picks either.                         *)
SkipResult(m) ==
    /\ detect.active
    /\ detect.pc[m] = "reporting"
    /\ detect.gctxDone
    /\ detect' = [detect EXCEPT !.pc[m] = "done"]
    /\ UNCHANGED <<rec, cfg, now, pass, calm, signalled, backoff, writer,
                   fleet, cache, labeler, monitor>>

(* detector.go:236-240: g.Wait() returns once both goroutines have         *)
(* returned (and cancels gctx), then the channel is closed.                *)
CloseResultChan ==
    /\ detect.active
    /\ ~detect.closed
    /\ \A m \in DetectionMethods : detect.pc[m] = "done"
    /\ detect' = [detect EXCEPT
            !.closed = TRUE,
            !.gctxDone = TRUE,
            !.waiter = IF detect.waiter.pc = "parked"
                         THEN [pc |-> "chosen", chosen |-> "recv", m |-> ""]
                         ELSE @]
    /\ UNCHANGED <<rec, cfg, now, pass, calm, signalled, backoff, writer,
                   fleet, cache, labeler, monitor>>

(* detector.go:166: the deadline of context.WithTimeout passes, or the     *)
(* caller's context is cancelled: ctx.Done() closes.                       *)
ContextDone ==
    /\ detect.active
    /\ ~detect.ctxDone
    /\ detect.ret = "pending"
    /\ detect' = [detect EXCEPT
            !.ctxDone = TRUE,
            !.waiter = IF detect.waiter.pc = "parked"
                         THEN [pc |-> "chosen", chosen |-> "done", m |-> ""]
                         ELSE @]
    /\ UNCHANGED <<rec, cfg, now, pass, calm, signalled, backoff, writer,
                   fleet, cache, labeler, monitor>>

(* detector.go:228: gctx is a child of ctx (errgroup.WithContext) and is   *)
(* done after its parent.                                                  *)
GroupContextDone ==
    /\ detect.active
    /\ detect.ctxDone
    /\ ~detect.gctxDone
    /\ detect' = [detect EXCEPT !.gctxDone = TRUE]
    /\ UNCHANGED <<rec, cfg, now, pass, calm, signalled, backoff, writer,
                   fleet, cache, labeler, monitor>>

(* detector.go:347-364: the waiter reaches its select.  It takes a ready   *)
(* case (either one when both are ready; a receive on the closed, empty    *)
(* channel yields ""), or parks.                                           *)
EnterSelect(chosen) ==
    /\ detect.active
    /\ detect.waiter.pc = "entering"
    /\ \/ /\ chosen = "recv"
          /\ (detect.resultChan # <<>> \/ detect.closed)
          /\ detect' = [detect EXCEPT
                  !.waiter = [pc |-> "chosen", chosen |-> "recv",
                              m |-> IF detect.resultChan # <<>>
                                      THEN Head(detect.resultChan)
                                      ELSE ""],
                  !.resultChan = IF @ # <<>> THEN Tail(@) ELSE @]
       \/ /\ chosen = "done"
          /\ detect.ctxDone
          /\ detect' = [detect EXCEPT
                  !.waiter = [pc |-> "chosen", chosen |-> "done", m |-> ""]]
       \/ /\ chosen = "park"
          /\ detect.resultChan = <<>>
          /\ ~detect.closed
          /\ ~detect.ctxDone
          /\ detect' = [detect EXCEPT !.waiter.pc = "parked"]
    /\ UNCHANGED <<rec, cfg, now, pass, calm, signalled, backoff, writer,
                   fleet, cache, labeler, monitor>>

(* detector.go:348-357: a received method makes the result positive and    *)
(* cancels the context; the empty value leaves the result as it was.       *)
ReceivedResult(d) ==
    IF d.waiter.m # ""
      THEN [d EXCEPT !.result.IsKata = TRUE,
                     !.result.Method = d.waiter.m,
                     !.ctxDone = TRUE,
                     !.waiter = [pc |-> "drain", chosen |-> "", m |-> ""]]
      ELSE [d EXCEPT !.waiter = [pc |-> "drain", chosen |-> "", m |-> ""]]

(* detector.go:348-364: the body of the case the select took.  On          *)
(* ctx.Done() waitForDetectionResult returns ctx.Err() and IsKataEnabled   *)
(* returns (nil, err) (detector.go:189-191).                               *)
RunSelectCase ==
    /\ detect.active
    /\ detect.waiter.pc = "chosen"
    /\ detect' = IF detect.waiter.chosen = "recv"
                   THEN ReceivedResult(detect)
                   ELSE [detect EXCEPT
                            !.waiter = [pc |-> "returned", chosen |-> "", m |-> ""],
                            !.ret = "err"]
    /\ UNCHANGED <<rec, cfg, now, pass, calm, signalled, backoff, writer,
                   fleet, cache, labeler, monitor>>

(* detector.go:366-368: for range resultChan drops one more value.         *)
DrainResult ==
    /\ detect.active
    /\ detect.waiter.pc = "drain"
    /\ detect.resultChan # <<>>
    /\ detect' = [detect EXCEPT !.resultChan = Tail(@)]
    /\ UNCHANGED <<rec, cfg, now, pass, calm, signalled, backoff, writer,
                   fleet, cache, labeler, monitor>>

(* detector.go:366-370, 193-197: the range loop ends on the closed, empty  *)
(* channel; waitForDetectionResult returns nil and IsKataEnabled returns   *)
(* the result.                                                             *)
ReturnResult ==
    /\ detect.active
    /\ detect.waiter.pc = "drain"
    /\ detect.resultChan = <<>>
    /\ detect.closed
    /\ detect' = [detect EXCEPT
            !.waiter = [pc |-> "returned", chosen |-> "", m |-> ""],
            !.ret = "nil"]
    /\ UNCHANGED <<rec, cfg, now, pass, calm, signalled, backoff, writer,
                   fleet, cache, labeler, monitor>>

RuntimeClassAnswers == {"kata", "plain", "error"}

InitDetect ==
    /\ rec = FreshRecord
    /\ cfg = [present |-> TRUE, manualMode |-> FALSE, timeout |-> 0]
    /\ now = 0
    /\ pass = IdlePass
    /\ calm = 0
    /\ signalled = FALSE
    /\ backoff = NoBackoff
    /\ writer = NoWriter
    /\ fleet = NoFleet
    /\ cache = NoCache
    /\ labeler = NoLabeler
    /\ monitor = NoMonitor
    /\ \E nodeKata \in BOOLEAN :
            detect = [NoDetection EXCEPT !.active = TRUE, !.nodeKata = nodeKata]

NextDetect ==
    \/ \E m \in DetectionMethods : RecordAttempt(m)
    \/ \E m \in DetectionMethods, answer \in RuntimeClassAnswers :
            RunDetection(m, answer)
    \/ \E m \in DetectionMethods : SendResult(m)
    \/ \E m \in DetectionMethods : SkipResult(m)
    \/ CloseResultChan
    \/ ContextDone
    \/ GroupContextDone
    \/ \E chosen \in {"recv", "done", "park"} : EnterSelect(chosen)
    \/ RunSelectCase
    \/ DrainResult
    \/ ReturnResult

SpecDetect == InitDetect /\ [][NextDetect]_vars

(* Every goroutine that can run does run, and the deadline of the call's   *)
(* context passes (detector.go:166).                                       *)
SpecDetectFair == SpecDetect /\ WF_vars(NextDetect)

----------------------------------------------------------------------------
(* Vocabulary of the properties *)

(* A pass has been computed: it is waiting for its status write or has     *)
(* returned.                                                               *)
PassComputed == pass.phase \in {"writing", "done"}

PassReturned == pass.phase = "done"

(* The pass changed the stored object: the status write or the finalizer   *)
(* Update went through.                                                    *)
PersistedWrite ==
    pass.wrote \/ pass.finalizerUpdate \in {"added", "removed"}

(* The pass ran on a record that exists, is not being deleted and had no   *)
(* CompletionTime.                                                         *)
LiveRecord ==
    /\ pass.found /\ ~pass.deleting
    /\ pass.branch # "finalizerFailed"

MonitoringPass ==
    pass.branch \in {"monitorTimeout", "monitorFailed", "succeeded",
                     "rebootTimeout", "waiting"}

NodeReadyIs(st, status, reason) ==
    /\ ConditionStatus(st, "NodeReady") = status
    /\ ConditionReason(st, "NodeReady") = reason

SignalSentIs(st, status, reason) ==
    /\ ConditionStatus(st, "SignalSent") = status
    /\ ConditionReason(st, "SignalSent") = reason

(* The pass left condition `type` as it found it, or as                    *)
(* SetInitialConditions creates it.                                        *)
HasCompletionTime(st) == st.completionTime # Nil

ConditionUntouched(type) ==
    ConditionStatus(pass.upd, type)
        \in {ConditionStatus(pass.orig, type), "Unknown"}

----------------------------------------------------------------------------
(* C1: once a SendRebootSignal call has returned success for the record,   *)
(* no later Reconcile pass calls SendRebootSignal for it again, also when  *)
(* the status write after the successful call fails or the process         *)
(* restarts before SignalSent=True is persisted.                           *)
C1_NoSecondRebootSignal == ~pass.resend

(* C2, as claimed: the second of two Reconcile passes in a row, given the  *)
(* same node and actuator answers and no external change in between,       *)
(* performs no persisted write.                                            *)
C2_SecondPassWritesNothing ==
    (PassReturned /\ calm = 2 /\ pass.repeat) => ~PersistedWrite

(* C2, amended: the second of two Reconcile passes in a row, given the     *)
(* same node and actuator answers and no external change in between,       *)
(* performs a persisted write only on a record that is neither completed   *)
(* nor being deleted and whose reboot is in progress or whose              *)
(* configuration is automatic; on a completed record, a record being       *)
(* deleted and a manual-mode record waiting for the outside actor it       *)
(* writes nothing.                                                         *)
C2_SecondPassWritesOnlyProgress ==
    (PassReturned /\ calm = 2 /\ pass.repeat /\ PersistedWrite) =>
        /\ LiveRecord
        /\ ~HasCompletionTime(pass.orig)
        /\ IsRebootInProgress(pass.orig) \/ ~cfg.manualMode

C2_Witness ==
    /\ PassReturned /\ calm = 2 /\ pass.repeat /\ ~PersistedWrite
    /\ pass.branch = "manual"
    /\ now > pass.upd.startTime[1]

(* C3: a Reconcile pass on a record that has CompletionTime set and is not *)
(* being deleted leaves the status unchanged, calls neither                *)
(* SendRebootSignal nor IsNodeReady, reads no node, emits no metric and    *)
(* returns no requeue and no error.                                        *)
C3_TerminalIsAbsorbing ==
    (PassComputed /\ LiveRecord /\ HasCompletionTime(pass.orig)) =>
        /\ PassReturned
        /\ pass.upd = pass.orig
        /\ rec.exists => rec.status = pass.orig
        /\ ~pass.wrote
        /\ pass.obs.call = "none"
        /\ pass.nodeGet = "none"
        /\ pass.metrics = {}
        /\ pass.ret = 0
        /\ ~pass.err

C3_Witness ==
    /\ PassReturned /\ LiveRecord /\ HasCompletionTime(pass.orig)
    /\ pass.orig.retryCount > 0

(* C4: a pass entered for a record that is not deleted, not completed and  *)
(* has RetryCount >= 20 sets CompletionTime and NodeReady=False with       *)
(* reason MaxRetriesExceeded, returns no requeue, calls no actuator and    *)
(* reads no node; it persists that status unless the write fails or the    *)
(* record has vanished.                                                    *)
C4_MaxRetriesIsTerminal ==
    (PassComputed /\ LiveRecord /\ ~HasCompletionTime(pass.orig)
        /\ pass.orig.retryCount >= MaxRebootRetries) =>
        /\ pass.upd.completionTime # Nil
        /\ NodeReadyIs(pass.upd, "False", "MaxRetriesExceeded")
        /\ pass.upd.retryCount = pass.orig.retryCount
        /\ pass.result = 0 /\ pass.ret = 0
        /\ pass.obs.call = "none"
        /\ pass.nodeGet = "none"
        /\ (PassReturned /\ ~pass.err /\ rec.exists) =>
              (pass.wrote /\ rec.status = pass.upd)

C4_Witness ==
    /\ PassReturned /\ pass.wrote
    /\ pass.orig.retryCount >= MaxRebootRetries
    /\ NodeReadyIs(rec.status, "False", "MaxRetriesExceeded")

(* C5: when the first monitoring call (IsNodeReady on a record with        *)
(* SignalSent=True and ConsecutiveFailures=0) exceeds the actuator         *)
(* timeout, the pass ends with ConsecutiveFailures=1, a requeue delay of   *)
(* 30s and CompletionTime still null.                                      *)
C5_FirstTimeoutRequeues30s ==
    (PassReturned /\ pass.wrote
        /\ pass.obs.call = "IsNodeReady" /\ pass.obs.answer = "timeout"
        /\ pass.orig.consecutiveFailures = 0) =>
        /\ pass.upd.consecutiveFailures = 1
        /\ pass.ret = 30
        /\ pass.upd.completionTime = Nil

(* C6: a deadline-exceeded answer from SendRebootSignal or IsNodeReady is  *)
(* retryable: the pass increments ConsecutiveFailures by exactly 1,        *)
(* computes a positive backoff delay (returned once the status is          *)
(* written), leaves CompletionTime unset and sets neither SignalSent nor   *)
(* NodeReady to True or False.                                             *)
C6_TimeoutIsRetryable ==
    (PassComputed /\ pass.obs.answer = "timeout") =>
        /\ pass.upd.consecutiveFailures = pass.orig.consecutiveFailures + 1
        /\ pass.result > 0
        /\ pass.upd.completionTime = Nil
        /\ ConditionUntouched("SignalSent")
        /\ ConditionUntouched("NodeReady")
        /\ (PassReturned /\ pass.wrote) =>
              (pass.ret = pass.result /\ rec.status = pass.upd)

C6_Witness ==
    /\ PassReturned /\ pass.wrote
    /\ pass.obs.call = "IsNodeReady" /\ pass.obs.answer = "timeout"
    /\ pass.upd.consecutiveFailures = 2
    /\ pass.ret > 0

(* C7: an error other than a timeout from SendRebootSignal or IsNodeReady  *)
(* is terminal: the pass sets CompletionTime, records status False with    *)
(* reason Failed (on SignalSent for a send error, on NodeReady for a       *)
(* readiness error), increments ConsecutiveFailures by 1 and returns no    *)
(* requeue.                                                                *)
C7_ActuatorErrorIsTerminal ==
    (PassComputed /\ pass.obs.answer = "error") =>
        /\ pass.upd.completionTime # Nil
        /\ pass.obs.call = "SendRebootSignal" =>
              SignalSentIs(pass.upd, "False", "Failed")
        /\ pass.obs.call = "IsNodeReady" =>
              NodeReadyIs(pass.upd, "False", "Failed")
        /\ pass.upd.consecutiveFailures = pass.orig.consecutiveFailures + 1
        /\ pass.result = 0 /\ pass.ret = 0

C7_Witness ==
    /\ PassReturned /\ pass.wrote
    /\ pass.obs.call = "IsNodeReady" /\ pass.obs.answer = "error"
    /\ NodeReadyIs(rec.status, "False", "Failed")
    /\ rec.status.consecutiveFailures = 2

(* C8: a monitoring pass in which the CSP readiness is true without error  *)
(* and the cluster reports the node Ready sets CompletionTime, sets        *)
(* NodeReady=True with reason Succeeded, sets ConsecutiveFailures to 0 and *)
(* returns no requeue; and no pass records NodeReady=True unless both the  *)
(* CSP readiness and the cluster readiness were true in that pass.         *)
C8_SuccessNeedsBothReady ==
    /\ (PassComputed /\ MonitoringPass
            /\ pass.obs.cspReady /\ pass.obs.k8sReady) =>
          /\ pass.upd.completionTime # Nil
          /\ NodeReadyIs(pass.upd, "True", "Succeeded")
          /\ pass.upd.consecutiveFailures = 0
          /\ pass.result = 0 /\ pass.ret = 0
    /\ (PassComputed /\ ConditionStatus(pass.upd, "NodeReady") = "True"
            /\ ConditionStatus(pass.orig, "NodeReady") # "True") =>
          /\ pass.obs.cspReady /\ pass.obs.k8sReady
          /\ pass.obs.answer \in {"ready", "none"}

C8_Witness ==
    /\ PassReturned /\ pass.wrote
    /\ pass.obs.call = "IsNodeReady" /\ pass.obs.answer = "ready"
    /\ pass.obs.k8sReady
    /\ pass.orig.consecutiveFailures > 0
    /\ NodeReadyIs(rec.status, "True", "Succeeded")

(* C9: in automatic mode a pass whose SendRebootSignal call succeeds (on a *)
(* fresh record in particular) records SignalSent=True with the actuator's *)
(* reference as the condition message, ends with ConsecutiveFailures 0 and *)
(* CompletionTime null, and requeues after exactly 30 seconds.             *)
C9_SignalSentRecorded ==
    (PassComputed /\ pass.obs.call = "SendRebootSignal"
        /\ pass.obs.answer = "ok") =>
        /\ ~cfg.manualMode
        /\ SignalSentIs(pass.upd, "True", "Succeeded")
        /\ GetCSPReqRef(pass.upd) = pass.obs.callRef
        /\ pass.obs.callRef \in RequestRefs
        /\ pass.upd.consecutiveFailures = 0
        /\ pass.upd.completionTime = Nil
        /\ pass.result = 30
        /\ (PassReturned /\ pass.wrote) =>
              (pass.ret = 30 /\ rec.status = pass.upd)

C9_Witness ==
    /\ PassReturned /\ pass.wrote
    /\ pass.orig = EmptyStatus
    /\ pass.obs.call = "SendRebootSignal" /\ pass.obs.answer = "ok"
    /\ GetCSPReqRef(rec.status) = "ref-b"
    /\ pass.ret = 30

(* C10: the backoff delay is a total function of ConsecutiveFailures on    *)
(* the non-negative int32 values: 30s at 0, 1m at 1, 2m at 2, 5m from 3    *)
(* on; it is non-decreasing and never exceeds 5m.                          *)
BackoffTable(n) ==
    IF n = 0 THEN 30 ELSE IF n = 1 THEN 60 ELSE IF n = 2 THEN 120 ELSE 300

C10_BackoffTable ==
    /\ backoff.d1 = BackoffTable(backoff.n1)
    /\ backoff.d2 = BackoffTable(backoff.n2)
    /\ backoff.n1 <= backoff.n2 => backoff.d1 <= backoff.d2
    /\ backoff.d1 <= 300

C10_Witness ==
    /\ backoff.n1 = 2 /\ backoff.n2 = Int32Max
    /\ backoff.d1 = 120 /\ backoff.d2 = 300

----------------------------------------------------------------------------
(* Vocabulary of the properties on the stored record *)

MonitoringBranches ==
    {"monitorTimeout", "monitorFailed", "succeeded", "rebootTimeout",
     "waiting"}

(* This step is the status write of a pass going through. *)
StatusWritten == pass.phase = "writing" /\ pass'.wrote

(* The record is in the store before and after this step. *)
RecordKept == rec.exists /\ rec'.exists

(* C11: the persisted RetryCount never decreases; it increases by exactly  *)
(* 1 in the status write of a pass that took the monitoring branch and by  *)
(* 0 in every other step on the record.                                    *)
C11_RetryCountSteps ==
    [][RecordKept =>
          rec'.status.retryCount = rec.status.retryCount +
              (IF StatusWritten /\ pass'.branch \in MonitoringBranches
               THEN 1 ELSE 0)]_vars

C11_Witness ==
    /\ PassReturned /\ pass.wrote /\ MonitoringPass
    /\ pass.branch = "waiting"
    /\ pass.orig.retryCount = 2
    /\ rec.exists /\ rec.status.retryCount = 3

(* C12, as claimed: after a monitoring pass that ends in success           *)
(* ConsecutiveFailures is exactly 0, after a pass whose actuator call      *)
(* timed out or returned an error it is the previous value plus 1, and no  *)
(* pass changes it otherwise.                                              *)
C12_FailuresChangeOnlyAsClaimed ==
    PassComputed =>
        pass.upd.consecutiveFailures =
            IF pass.branch = "succeeded" THEN 0
            ELSE IF pass.obs.answer \in {"timeout", "error"}
            THEN pass.orig.consecutiveFailures + 1
            ELSE pass.orig.consecutiveFailures

(* C12, amended: ConsecutiveFailures is exactly 0 after a monitoring pass  *)
(* that ends in success and after a pass whose SendRebootSignal call       *)
(* succeeded, the previous value plus 1 after a pass whose actuator call   *)
(* timed out or returned an error, and unchanged after every other pass;   *)
(* the status write persists that value.                                   *)
C12_FailuresResetOrPlusOne ==
    /\ PassComputed =>
          pass.upd.consecutiveFailures =
              IF pass.branch = "succeeded" THEN 0
              ELSE IF pass.obs.call = "SendRebootSignal"
                        /\ pass.obs.answer = "ok" THEN 0
              ELSE IF pass.obs.answer \in {"timeout", "error"}
              THEN pass.orig.consecutiveFailures + 1
              ELSE pass.orig.consecutiveFailures
    /\ (PassReturned /\ pass.wrote /\ rec.exists) =>
          rec.status.consecutiveFailures = pass.upd.consecutiveFailures

C12_Witness ==
    /\ PassReturned /\ pass.wrote /\ rec.exists
    /\ pass.branch = "succeeded"
    /\ pass.obs.call = "IsNodeReady"
    /\ pass.orig.consecutiveFailures = 2
    /\ rec.status.consecutiveFailures = 0

ConditionCount(st, type) ==
    Cardinality({ i \in 1..Len(st.conditions) : st.conditions[i].type = type })

(* C13: in manual mode with the signal never sent, the first pass adds the *)
(* ManualMode condition, the record never carries more than one, and a     *)
(* pass on a record that already has it changes no status, writes nothing, *)
(* emits no metric and returns no requeue.                                 *)
C13_ManualModeConditionOnce ==
    /\ (PassComputed /\ pass.branch = "manual") =>
          /\ cfg.manualMode
          /\ ConditionCount(pass.upd, "ManualMode") = 1
          /\ ConditionStatus(pass.upd, "ManualMode") = "True"
          /\ ConditionReason(pass.upd, "ManualMode") = "OutsideActorRequired"
          /\ pass.obs.call = "none"
          /\ pass.result = 0 /\ pass.ret = 0
          /\ ConditionCount(pass.orig, "ManualMode") = 1 =>
                /\ pass.upd = pass.orig
                /\ PassReturned /\ ~pass.wrote /\ ~pass.err
                /\ pass.metrics = {}
          /\ (PassReturned /\ pass.wrote /\ rec.exists) =>
                /\ ConditionCount(pass.orig, "ManualMode") = 0
                /\ rec.status = pass.upd
    /\ rec.exists => ConditionCount(rec.status, "ManualMode") <= 1

C13_Witness ==
    /\ PassReturned /\ pass.branch = "manual" /\ ~pass.wrote
    /\ calm = 2 /\ pass.repeat
    /\ rec.exists /\ ConditionCount(rec.status, "ManualMode") = 1
    /\ rec.status = pass.orig
    /\ now > rec.status.conditions[3].lastTransitionTime
    /\ pass.ret = 0

(* C14: in a manual-mode configuration no Reconcile pass calls             *)
(* SendRebootSignal or IsNodeReady: before the signal the pass only waits  *)
(* for the outside actor, and a monitoring pass takes the CSP readiness as *)
(* true without a call.                                                    *)
C14_ManualModeCallsNoActuator ==
    cfg.manualMode =>
        /\ pass.obs.call = "none"
        /\ pass.obs.answer = "none"
        /\ ~signalled
        /\ (PassComputed /\ MonitoringPass) => pass.obs.cspReady
        /\ (PassComputed /\ pass.found /\ ~pass.deleting
                /\ ~HasCompletionTime(pass.orig)
                /\ pass.nodeGet = "found"
                /\ ConditionStatus(pass.orig, "SignalSent") # "True") =>
              pass.branch = "manual"

C14_Witness ==
    /\ cfg.manualMode
    /\ PassReturned /\ pass.wrote /\ pass.branch = "succeeded"
    /\ pass.obs.call = "none" /\ pass.obs.cspReady /\ pass.obs.k8sReady
    /\ rec.exists /\ NodeReadyIs(rec.status, "True", "Succeeded")

(* C15: StartTime is set once: a pass on a record that has a StartTime     *)
(* keeps its value (SetStartTime leaves a set StartTime alone), a pass on  *)
(* a record without one sets it to the time of the pass, and no step       *)
(* changes a StartTime the stored record already has.                      *)
C15_StartTimeSetOnce ==
    [][/\ (RecordKept /\ rec.status.startTime # Nil) =>
             rec'.status.startTime = rec.status.startTime
       /\ (pass'.phase \in {"writing", "done"}
              /\ pass'.orig.startTime # Nil) =>
             /\ pass'.upd.startTime = pass'.orig.startTime
             /\ SetStartTime(pass'.orig, now').startTime
                    = pass'.orig.startTime
       /\ (pass.phase # "writing" /\ pass'.phase = "writing"
              /\ pass'.orig.startTime = Nil) =>
             pass'.upd.startTime = At(now')]_vars

C15_Witness ==
    /\ PassReturned /\ pass.wrote /\ rec.exists
    /\ pass.orig.startTime = At(0)
    /\ now > 0
    /\ pass.upd.conditions # pass.orig.conditions
    /\ rec.status.startTime = At(0)

TerminalCondition(st) ==
    \/ NodeReadyIs(st, "True", "Succeeded")
    \/ /\ ConditionStatus(st, "NodeReady") = "False"
       /\ ConditionReason(st, "NodeReady")
              \in {"Failed", "Timeout", "MaxRetriesExceeded"}
    \/ SignalSentIs(st, "False", "Failed")

CompletionMatchesCondition(r) ==
    r.exists => (HasCompletionTime(r.status) <=> TerminalCondition(r.status))

(* C16: the stored record has a CompletionTime exactly when it carries a   *)
(* terminal condition (NodeReady=True/Succeeded, NodeReady=False with      *)
(* reason Failed, Timeout or MaxRetriesExceeded, SignalSent=False/Failed), *)
(* and no step changes a CompletionTime the stored record already has.     *)
C16_CompletionTimeIffTerminal ==
    [][/\ CompletionMatchesCondition(rec)
       /\ CompletionMatchesCondition(rec')
       /\ (RecordKept /\ HasCompletionTime(rec.status)) =>
             rec'.status.completionTime = rec.status.completionTime]_vars

C16_Witness ==
    /\ rec.exists /\ ~rec.deleting
    /\ NodeReadyIs(rec.status, "False", "Timeout")
    /\ HasCompletionTime(rec.status)
    /\ PassReturned /\ pass.branch = "completed"
    /\ now >= rec.status.completionTime[1]

ConditionTypes == {"SignalSent", "NodeReady", "ManualMode"}

UniqueTypes(st) ==
    \A type \in ConditionTypes : ConditionCount(st, type) <= 1

(* Setting a condition of `type` on st: replaced in place when the type is *)
(* there, appended when it is not.                                         *)
UpsertLaw(st, type) ==
    LET c == Condition(type, "True", "Probe", "probe", now)
        set == SetCondition(st, c).conditions
    IN  IF ConditionCount(st, type) > 0
        THEN /\ Len(set) = Len(st.conditions)
             /\ \E i \in 1..Len(set) :
                   /\ st.conditions[i].type = type
                   /\ set = [st.conditions EXCEPT ![i] = c]
        ELSE set = Append(st.conditions, c)

(* C17: the condition list of the record holds at most one condition of    *)
(* each type (SignalSent, NodeReady, ManualMode) after any sequence of     *)
(* passes; SetCondition replaces a condition of an existing type in place  *)
(* without changing the length of the list and appends exactly one entry   *)
(* for a new type; a pass keeps the conditions it found at their places.   *)
C17_OneConditionPerType ==
    /\ rec.exists => UniqueTypes(rec.status)
    /\ UniqueTypes(pass.upd)
    /\ UniqueTypes(SetInitialConditions(pass.orig, now))
    /\ \A type \in ConditionTypes :
          UpsertLaw(pass.upd, type) /\ UpsertLaw(pass.orig, type)
    /\ PassComputed =>
          /\ Len(pass.upd.conditions) >= Len(pass.orig.conditions)
          /\ \A i \in 1..Len(pass.orig.conditions) :
                pass.upd.conditions[i].type = pass.orig.conditions[i].type

C17_Witness ==
    /\ PassReturned /\ pass.wrote /\ rec.exists
    /\ Len(pass.orig.conditions) = 3
    /\ Len(rec.status.conditions) = 3
    /\ pass.orig.conditions[2].type = "NodeReady"
    /\ rec.status.conditions[2].type = "NodeReady"
    /\ rec.status.conditions[2].status = "True"
    /\ pass.orig.conditions[2].status = "Unknown"
    /\ rec.status.conditions[3].type = "ManualMode"

(* C18: a pass on a record whose deletion was requested changes nothing    *)
(* but the lifecycle marker: it leaves the status unchanged, calls no      *)
(* actuator, reads no node, emits no metric, returns no requeue, removes   *)
(* the marker when it is present and makes no store write when it is not.  *)
C18_DeletionPassOnlyRemovesMarker ==
    (PassComputed /\ pass.found /\ pass.deleting) =>
        /\ PassReturned
        /\ pass.upd = pass.orig
        /\ ~pass.wrote
        /\ rec.exists => rec.status = pass.orig /\ rec.deleting
        /\ pass.obs.call = "none"
        /\ pass.nodeGet = "none"
        /\ pass.metrics = {}
        /\ pass.result = 0 /\ pass.ret = 0
        /\ pass.hadFinalizer =>
              /\ pass.finalizerUpdate \in {"removed", "failed"}
              /\ pass.finalizerUpdate = "removed" =>
                    (~pass.err /\ (rec.exists => ~rec.finalizer))
              /\ pass.finalizerUpdate = "failed" =>
                    (pass.err /\ rec.exists /\ rec.finalizer)
        /\ ~pass.hadFinalizer =>
              /\ pass.finalizerUpdate = "none"
              /\ ~pass.err
              /\ rec.exists /\ ~rec.finalizer

C18_Witness ==
    /\ PassReturned /\ pass.found /\ pass.deleting
    /\ ~pass.hadFinalizer
    /\ pass.finalizerUpdate = "none"
    /\ rec.exists /\ rec.deleting
    /\ IsRebootInProgress(rec.status)
    /\ rec.status.retryCount > 0

(* C19: for every record that is deleted, the cleanup step of the deletion *)
(* handling has run exactly once when the marker removal is persisted,     *)
(* also when an earlier attempt to persist the removal failed and the pass *)
(* was retried.                                                            *)
C19_CleanupRunsExactlyOnce ==
    (PassReturned /\ pass.branch = "deletion"
        /\ pass.finalizerUpdate = "removed") => pass.cleanups = 1

(* C20: a pass on a record that is not being deleted and lacks the marker  *)
(* adds the marker before any other work: when the marker write fails the  *)
(* pass ends with an error, no status change, no status write, no node     *)
(* read, no actuator call and no metric; when it succeeds the stored       *)
(* record carries the marker; and no pass adds the marker to a record      *)
(* whose deletion was requested.                                           *)
C20_MarkerAddedFirst ==
    /\ (PassComputed /\ pass.found /\ ~pass.deleting
            /\ ~pass.hadFinalizer) =>
          /\ pass.finalizerUpdate \in {"added", "failed"}
          /\ pass.finalizerUpdate = "failed" =>
                /\ PassReturned /\ pass.err
                /\ pass.upd = pass.orig /\ ~pass.wrote
                /\ pass.obs.call = "none" /\ pass.nodeGet = "none"
                /\ pass.metrics = {}
                /\ pass.ret = 0
                /\ rec.exists /\ ~rec.finalizer
                /\ rec.status = pass.orig
          /\ pass.finalizerUpdate = "added" => (rec.exists => rec.finalizer)
    /\ (PassComputed /\ pass.found /\ pass.hadFinalizer) =>
          pass.finalizerUpdate # "added"
    /\ (PassComputed /\ pass.deleting) => pass.finalizerUpdate # "added"

C20_Witness ==
    /\ PassReturned /\ pass.wrote /\ pass.found /\ ~pass.deleting
    /\ ~pass.hadFinalizer /\ pass.finalizerUpdate = "added"
    /\ pass.obs.call = "SendRebootSignal"
    /\ now > 0
    /\ rec.exists /\ rec.finalizer

----------------------------------------------------------------------------
(* The pass ended on a not-found answer: the record at the initial fetch   *)
(* (149-151), the node (237-240), or the record at the status writer's     *)
(* refresh (102-107, 219-222).                                             *)
NotFoundAtFetch == pass.branch \in {"notFound", "nodeNotFound"}

NotFoundAtRefresh == pass.refresh = "notfound"

SilentReturn == ~pass.err /\ pass.ret = 0 /\ ~pass.wrote

(* C21 as stated: wherever not-found occurs (initial fetch, node fetch,    *)
(* refresh of the status writer) Reconcile returns no error and no         *)
(* requeue, makes no actuator call and writes no status.                   *)
C21_NotFoundIsSilentNoOp ==
    PassReturned /\ (NotFoundAtFetch \/ NotFoundAtRefresh)
        => SilentReturn /\ pass.obs.call = "none"

(* C21, amended: not-found at the initial fetch or at the node fetch ends  *)
(* the pass with no error, no requeue, no actuator call and no status      *)
(* write; not-found at the status writer's refresh ends it with no error,  *)
(* no requeue and no status write, but the pass has by then made whatever  *)
(* actuator call its branch makes.                                         *)
C21_NotFoundIsCancellation ==
    PassReturned =>
        /\ NotFoundAtFetch =>
             SilentReturn /\ pass.obs.call = "none" /\ pass.refresh = "none"
        /\ NotFoundAtRefresh => SilentReturn /\ ~rec.exists

C21_Witness ==
    /\ PassReturned /\ NotFoundAtRefresh /\ SilentReturn
    /\ pass.obs.call = "SendRebootSignal" /\ pass.obs.answer = "ok"

----------------------------------------------------------------------------
(* The status writer of the pass got a failure from the store: the refresh *)
(* failed other than by not-found, or the Status().Update failed.          *)
StatusWriteFailed(p) ==
    \/ p.refresh = "error"
    \/ p.refresh = "ok" /\ ~p.wrote

(* A delivery: a new pass starts (and computes up to its status write).    *)
PassStarts == pass.phase # "writing" /\ pass'.phase \in {"writing", "done"}

(* C22: a failure of the status write, or of the refresh before it other   *)
(* than not-found, is returned as an error and leaves the persisted record *)
(* as it was before the pass (no CompletionTime from the failed pass); the  *)
(* next delivery starts again from the persisted state.                    *)
C22_WriteFailureIsReturned ==
    /\ [](PassReturned /\ StatusWriteFailed(pass) /\ rec.exists
            => /\ pass.err /\ pass.ret = 0
               /\ ~HasCompletionTime(rec.status)
               /\ ~pass.disturbed => rec.status = pass.orig)
    /\ [][/\ pass.phase = "writing" /\ StatusWriteFailed(pass')
                => pass'.err /\ pass'.ret = 0 /\ rec' = rec
          /\ PassReturned /\ StatusWriteFailed(pass) /\ PassStarts
               /\ rec.exists
                => pass'.found /\ pass'.orig = rec.status]_vars

C22_Witness ==
    /\ PassReturned /\ StatusWriteFailed(pass) /\ pass.err
    /\ HasCompletionTime(pass.upd)
    /\ rec.exists /\ rec.status = pass.orig
    /\ ~HasCompletionTime(rec.status)

----------------------------------------------------------------------------
(* The Status().Update of the status writer *)
WriterUpdates == writer.phase = "refreshed" /\ writer'.phase = "done"

(* C23: a status write changes only the status of the stored record: a     *)
(* spec edit made by an external party between the reconciler's read and   *)
(* its status write is still there after the write, and the write fails    *)
(* only when the record changed after the refresh, never because the       *)
(* reconciler's first copy was stale.                                      *)
C23_StatusWriteKeepsSpec ==
    [][WriterUpdates =>
         /\ writer'.store.spec = writer.store.spec
         /\ writer.freshRebootNode.resourceVersion
                = writer.store.resourceVersion
              => writer'.err = "none"
         /\ writer'.err = "none"
              => writer'.store.status = writer.rebootNode.status
         /\ writer'.err # "none" => writer'.store = writer.store]_vars

C23_Witness ==
    /\ writer.phase = "done" /\ writer.err = "none"
    /\ writer.rebootNode.resourceVersion
           < writer.freshRebootNode.resourceVersion
    /\ writer.store.spec # writer.rebootNode.spec
    /\ writer.store.status = writer.rebootNode.status

----------------------------------------------------------------------------
(* A monitoring pass (the record read is in progress, the node was found,  *)
(* the retry limit is not reached) with no actuator error or timeout and   *)
(* without both readiness signals true.                                    *)
MonitoringWithoutVerdict ==
    /\ PassComputed /\ LiveRecord
    /\ pass.branch \notin {"completed", "maxRetries"}
    /\ pass.nodeGet = "found"
    /\ IsRebootInProgress(pass.orig)
    /\ pass.obs.answer \notin {"timeout", "error"}
    /\ ~(pass.obs.cspReady /\ pass.obs.k8sReady)

(* The overall reboot timeout as the claim states it *)
ClaimedRebootTimeout ==
    IF ~cfg.present \/ cfg.timeout = 0 THEN DefaultRebootTimeout
    ELSE cfg.timeout

(* Seconds since StartTime on the clock the pass read *)
Elapsed(st) == now - st.startTime[1]

(* C24: in a monitoring pass with no actuator error or timeout and without *)
(* both readiness signals true, if the time since StartTime exceeds the    *)
(* overall reboot timeout (the configured Timeout, or 30 minutes when the  *)
(* configuration is absent or zero) the pass sets CompletionTime and       *)
(* NodeReady=False with reason Timeout and returns no requeue; otherwise   *)
(* it stays non-terminal and returns a requeue whose delay is the backoff  *)
(* of the current ConsecutiveFailures.                                     *)
C24_RebootTimeoutOrWait ==
    MonitoringWithoutVerdict =>
        /\ pass.upd.startTime # Nil
        /\ IF Elapsed(pass.upd) > ClaimedRebootTimeout
           THEN /\ HasCompletionTime(pass.upd)
                /\ NodeReadyIs(pass.upd, "False", "Timeout")
                /\ pass.result = 0 /\ pass.ret = 0
                /\ ~pass.err \/ StatusWriteFailed(pass)
           ELSE /\ ~HasCompletionTime(pass.upd)
                /\ pass.result
                     = getNextRequeueDelay(pass.upd.consecutiveFailures)
                /\ pass.result > 0
                /\ PassReturned /\ pass.wrote => pass.ret = pass.result
                /\ ~pass.err \/ StatusWriteFailed(pass)

(* The same over the reconcilers that have a configuration *)
C24_WithConfiguration == cfg.present => C24_RebootTimeoutOrWait

C24_TimedOutSeen ==
    /\ MonitoringWithoutVerdict /\ cfg.present /\ cfg.timeout = 0
    /\ PassReturned /\ pass.wrote
    /\ Elapsed(pass.upd) > DefaultRebootTimeout
    /\ NodeReadyIs(rec.status, "False", "Timeout")

C24_StillWaitingSeen ==
    /\ MonitoringWithoutVerdict /\ cfg.present /\ cfg.timeout > 0
    /\ PassReturned /\ pass.wrote
    /\ Elapsed(pass.upd) > DefaultRebootTimeout
    /\ pass.ret = 60

----------------------------------------------------------------------------
(* A step of a pass on record `key`: its delivery or its status write *)
PassStepOn(key) == fleet'.passes[key] # fleet.passes[key]

(* C25: records are independent under concurrency: in any interleaving of  *)
(* the passes of two records, a pass on one record reads only that record, *)
(* leaves the other record and the other pass as they are, and returns a   *)
(* backoff delay computed from its own ConsecutiveFailures.                *)
C25_RecordsIndependent ==
    [][\A key \in RecordKeys :
         PassStepOn(key) =>
           /\ \A other \in RecordKeys \ {key} :
                /\ fleet'.store[other] = fleet.store[other]
                /\ fleet'.passes[other] = fleet.passes[other]
           /\ fleet.passes[key].phase # "writing" =>
                /\ fleet'.passes[key].found
                /\ fleet'.passes[key].orig = fleet.store[key].status
           /\ fleet'.passes[key].wrote =>
                fleet'.store[key].status = fleet'.passes[key].upd
           /\ fleet'.passes[key].result > 0
                /\ fleet'.passes[key].branch # "signalSent" =>
                fleet'.passes[key].result =
                  BackoffTable(fleet'.passes[key].upd.consecutiveFailures)
      ]_vars

C25_Witness ==
    /\ fleet.passes["reboot-a"].phase = "writing"
    /\ fleet.passes["reboot-a"].upd.consecutiveFailures = 2
    /\ fleet.passes["reboot-a"].result = 120
    /\ fleet.passes["reboot-b"].phase = "writing"
    /\ fleet.passes["reboot-b"].upd.consecutiveFailures = 1
    /\ fleet.passes["reboot-b"].result = 60
    /\ fleet.store["reboot-a"].status # fleet.store["reboot-b"].status

----------------------------------------------------------------------------
(* The pass computed a terminal outcome for a record that had none *)
ComputedTerminal ==
    PassComputed /\ HasCompletionTime(pass.upd) /\ ~HasCompletionTime(pass.orig)

(* C26: every terminal outcome is observable: a stored record with a       *)
(* CompletionTime carries a condition naming the outcome, the pass that    *)
(* computed the outcome emitted the succeeded metric (success) or the      *)
(* failed metric (Failed, Timeout, MaxRetriesExceeded), and the MTTR       *)
(* histogram is observed on the success outcome only.                      *)
C26_TerminalOutcomeObservable ==
    /\ rec.exists /\ HasCompletionTime(rec.status)
         => TerminalCondition(rec.status)
    /\ ComputedTerminal =>
         /\ TerminalCondition(pass.upd)
         /\ IF NodeReadyIs(pass.upd, "True", "Succeeded")
            THEN "succeeded" \in pass.metrics /\ "failed" \notin pass.metrics
            ELSE "failed" \in pass.metrics /\ "succeeded" \notin pass.metrics
    /\ PassComputed =>
         ("mttr" \in pass.metrics <=>
            ComputedTerminal /\ NodeReadyIs(pass.upd, "True", "Succeeded"))
    /\ PassComputed /\ ~ComputedTerminal =>
         pass.metrics \subseteq {"started"}

C26_Witness ==
    /\ PassReturned /\ pass.wrote /\ ComputedTerminal
    /\ rec.exists /\ SignalSentIs(rec.status, "False", "Failed")
    /\ pass.metrics = {"started", "failed"}

----------------------------------------------------------------------------
(* C27: in automatic mode every record whose node exists eventually has a  *)
(* CompletionTime, whatever sequence of success, error and timeout answers *)
(* the actuator gives, provided every requested requeue is delivered and   *)
(* status writes eventually succeed.                                       *)
C27_EveryRecordCompletes ==
    <>(rec.exists /\ HasCompletionTime(rec.status))

----------------------------------------------------------------------------
(* The actuator call of the pass ran into its deadline *)
ActuatorTimedOut(call) ==
    PassComputed /\ pass.obs.call = call /\ pass.obs.answer = "timeout"

(* The pass handed its status to the status writer *)
WriteAttempted == pass.phase = "writing" \/ pass.refresh # "none"

(* C28: an actuator timeout never aborts the status write of what the pass *)
(* has computed: a pass whose IsNodeReady call times out writes its        *)
(* RetryCount increment together with the ConsecutiveFailures increment,   *)
(* and a first pass whose SendRebootSignal call times out writes StartTime *)
(* and the initial conditions together with ConsecutiveFailures = 1.       *)
C28_TimeoutKeepsComputedFields ==
    /\ ActuatorTimedOut("IsNodeReady") =>
         /\ WriteAttempted
         /\ pass.upd.retryCount = pass.orig.retryCount + 1
         /\ pass.upd.consecutiveFailures = pass.orig.consecutiveFailures + 1
    /\ ActuatorTimedOut("SendRebootSignal") /\ pass.orig = EmptyStatus =>
         /\ WriteAttempted
         /\ pass.upd.startTime = At(now)
         /\ ConditionStatus(pass.upd, "SignalSent") = "Unknown"
         /\ ConditionStatus(pass.upd, "NodeReady") = "Unknown"
         /\ pass.upd.consecutiveFailures = 1
    /\ PassReturned /\ pass.obs.answer = "timeout" /\ pass.wrote
         /\ rec.exists => rec.status = pass.upd

C28_Witness ==
    /\ ActuatorTimedOut("IsNodeReady") /\ PassReturned /\ pass.wrote
    /\ rec.exists
    /\ rec.status.retryCount = pass.orig.retryCount + 1
    /\ rec.status.consecutiveFailures = pass.orig.consecutiveFailures + 1
    /\ rec.status.conditions = pass.orig.conditions

C28_FirstSendTimeoutSeen ==
    /\ ActuatorTimedOut("SendRebootSignal") /\ pass.orig = EmptyStatus
    /\ PassReturned /\ pass.wrote /\ rec.exists
    /\ rec.status.startTime # Nil /\ Len(rec.status.conditions) = 2
    /\ rec.status.consecutiveFailures = 1

----------------------------------------------------------------------------
(* The call found a cached result younger than the TTL at its check *)
WithinTTL(call) ==
    /\ call.before.cachedResult # "nil"
    /\ call.checkedAt - call.before.cachedAt[1] < cache.cacheTTL

ServedFromCache(call) ==
    /\ ~call.invoked /\ ~call.err
    /\ call.result = call.before.cachedResult
    /\ call.after = call.before

----------------------------------------------------------------------------
(* C30: when Kata detection fails while a pod add, update or delete event  *)
(* is handled, the labeler skips the Kata label update: the node's         *)
(* kata.enabled label keeps the value it had before the event, while the   *)
(* DCGM and driver labels are still reconciled.                            *)
C30_KataLabelKeptOnDetectionFailure ==
    labeler.event.kind \in PodEventKinds /\ ~labeler.event.kataDetected
        /\ ~labeler.event.err =>
        /\ LabelOf(labeler.labels, KataEnabledLabel)
             = LabelOf(labeler.event.before, KataEnabledLabel)
        /\ LabelOf(labeler.labels, DCGMVersionLabel)
             = labeler.event.expectedDCGMVersion
        /\ LabelOf(labeler.labels, DriverInstalledLabel)
             = labeler.event.expectedDriverLabel

(* The other labels are reconciled also when Kata detection fails *)
C30_OtherLabelsReconciled ==
    labeler.event.kind \in PodEventKinds /\ ~labeler.event.err =>
        /\ LabelOf(labeler.labels, DCGMVersionLabel)
             = labeler.event.expectedDCGMVersion
        /\ LabelOf(labeler.labels, DriverInstalledLabel)
             = labeler.event.expectedDriverLabel

----------------------------------------------------------------------------
(* IsNodeReady was called and returned neither an error nor a timeout: the *)
(* monitoring step itself succeeded, the node being ready or not.          *)
ReadinessAnswered ==
    pass.obs.call = "IsNodeReady" /\ pass.obs.answer \in {"ready", "notready"}

C31_OnlySuccessResets ==
    (PassReturned /\ pass.wrote /\ ReadinessAnswered) =>
        rec.status.consecutiveFailures =
            IF pass.branch = "succeeded" THEN 0
            ELSE pass.orig.consecutiveFailures

----------------------------------------------------------------------------
(* A pass on a record whose reboot is in progress that got as far as       *)
(* choosing an outcome: the retry limit was reached, or the node was found *)
(* and the reconciler has a configuration to read the mode from.           *)
MonitoringOutcomeChosen ==
    /\ PassComputed /\ LiveRecord
    /\ ~HasCompletionTime(pass.orig)
    /\ IsRebootInProgress(pass.orig)
    /\ pass.branch # "panic"
    /\ pass.orig.retryCount >= MaxRebootRetries \/ pass.nodeGet = "found"

(* The NodeReady reason the priority order of the claim selects for what   *)
(* the pass observed; "" where the order leaves the record non-terminal.   *)
OrderedReason ==
    IF pass.orig.retryCount >= MaxRebootRetries THEN "MaxRetriesExceeded"
    ELSE IF pass.obs.answer = "timeout" THEN ""
    ELSE IF pass.obs.answer = "error" THEN "Failed"
    ELSE IF pass.obs.cspReady /\ pass.obs.k8sReady THEN "Succeeded"
    ELSE IF Elapsed(pass.upd) > ClaimedRebootTimeout THEN "Timeout"
    ELSE ""

(* C32: the outcome of a monitoring pass is chosen in a fixed priority     *)
(* order: max-retries exhaustion, then actuator timeout, then other        *)
(* actuator error, then success, then overall timeout, then still waiting. *)
(* Both readiness signals true give Succeeded even when the overall        *)
(* timeout has passed, and RetryCount >= 20 at entry gives                 *)
(* MaxRetriesExceeded before the node or the actuator is asked.            *)
C32_OutcomePriority ==
    MonitoringOutcomeChosen =>
        IF OrderedReason = ""
        THEN /\ ~HasCompletionTime(pass.upd)
             /\ ConditionStatus(pass.upd, "NodeReady")
                  = ConditionStatus(pass.orig, "NodeReady")
             /\ pass.result > 0
             /\ pass.upd.consecutiveFailures = pass.orig.consecutiveFailures
                  + (IF pass.obs.answer = "timeout" THEN 1 ELSE 0)
        ELSE /\ HasCompletionTime(pass.upd)
             /\ NodeReadyIs(pass.upd,
                    IF OrderedReason = "Succeeded" THEN "True" ELSE "False",
                    OrderedReason)
             /\ pass.result = 0
             /\ OrderedReason = "MaxRetriesExceeded" =>
                    pass.obs.call = "none" /\ pass.nodeGet = "none"

C32_Witness ==
    /\ MonitoringOutcomeChosen /\ PassReturned /\ pass.wrote
    /\ pass.obs.call = "IsNodeReady"
    /\ pass.obs.cspReady /\ pass.obs.k8sReady
    /\ Elapsed(pass.upd) > ClaimedRebootTimeout
    /\ NodeReadyIs(rec.status, "True", "Succeeded")

C32_MaxRetriesFirstSeen ==
    /\ MonitoringOutcomeChosen /\ PassReturned /\ pass.wrote
    /\ pass.orig.retryCount >= MaxRebootRetries
    /\ Elapsed(pass.upd) > ClaimedRebootTimeout
    /\ NodeReadyIs(rec.status, "False", "MaxRetriesExceeded")

----------------------------------------------------------------------------
(* The pass that has just returned sent the reboot signal and persisted    *)
(* SignalSent=True.                                                        *)
SignalSentPersisted ==
    /\ PassReturned /\ pass.wrote
    /\ pass.obs.call = "SendRebootSignal" /\ pass.obs.answer = "ok"
    /\ rec.exists /\ SignalSentIs(rec.status, "True", "Succeeded")

(* The next pass got as far as the branch on IsRebootInProgress: it found  *)
(* the record, not being deleted, and read the node.                       *)
NextPassReachesBranch ==
    /\ PassStarts
    /\ pass'.found /\ ~pass'.deleting
    /\ pass'.nodeGet = "found"

(* C33: after a pass has persisted SignalSent=True following a successful  *)
(* SendRebootSignal, the next Reconcile of the record never takes the      *)
(* signal-not-yet-sent branch (it calls no SendRebootSignal), and when it  *)
(* reaches the branch on the reboot being in progress it takes the         *)
(* monitoring branch: RetryCount is the persisted value plus 1 and         *)
(* IsNodeReady is called with exactly the reference SendRebootSignal       *)
(* returned.                                                               *)
C33_NextPassMonitors ==
    [][ (SignalSentPersisted /\ PassStarts) =>
            /\ pass'.obs.call # "SendRebootSignal"
            /\ pass'.branch \notin {"signalAlreadySent", "manual",
                                    "sendTimeout", "signalSent", "sendFailed"}
            /\ NextPassReachesBranch =>
                 /\ pass'.branch \in {"monitorTimeout", "monitorFailed",
                                      "succeeded", "rebootTimeout", "waiting"}
                 /\ pass'.upd.retryCount = rec.status.retryCount + 1
                 /\ pass'.obs.call = "IsNodeReady"
                 /\ pass'.obs.callRef = pass.obs.callRef
                 /\ pass'.obs.callRef \in RequestRefs ]_vars

C33_Witness ==
    /\ PassComputed /\ pass.branch = "waiting"
    /\ pass.orig.retryCount = 0 /\ pass.upd.retryCount = 1
    /\ SignalSentIs(pass.orig, "True", "Succeeded")
    /\ pass.obs.call = "IsNodeReady" /\ pass.obs.callRef = "ref-b"
    /\ signalled

----------------------------------------------------------------------------
(* The reconciler is the only writer of the status: it sends the signal    *)
(* itself, and the model has an outside writer only where it does not.     *)
OwnWritesOnly == cfg.present /\ ~cfg.manualMode

SignalSentTrue(st) == ConditionStatus(st, "SignalSent") = "True"

(* C34: the persisted record only moves forward through Created,           *)
(* SignalPending, Monitoring and Terminal: where the reconciler is the     *)
(* only writer of the status, a persisted SignalSent=True is never         *)
(* replaced by another status; NodeReady is True or False only if          *)
(* SignalSent is True, and RetryCount > 0 only if SignalSent is True.      *)
C34_RecordMovesForward ==
    /\ [](rec.exists =>
            /\ ConditionStatus(rec.status, "NodeReady") \in {"True", "False"}
                 => SignalSentTrue(rec.status)
            /\ rec.status.retryCount > 0 => SignalSentTrue(rec.status))
    /\ [][ (OwnWritesOnly /\ rec.exists /\ rec'.exists
              /\ SignalSentTrue(rec.status))
            => SignalSentTrue(rec'.status) ]_vars

C34_Witness ==
    /\ OwnWritesOnly /\ rec.exists
    /\ SignalSentTrue(rec.status)
    /\ NodeReadyIs(rec.status, "False", "Timeout")
    /\ rec.status.retryCount > 1
    /\ PassReturned /\ pass.wrote

----------------------------------------------------------------------------
----------------------------------------------------------------------------
(* C36: monitoring is bounded: once SignalSent=True is persisted, with the *)
(* node present, every requested requeue delivered and every status write  *)
(* succeeding, the record has CompletionTime set after at most 21 further  *)
(* Reconcile passes, whatever IsNodeReady answers.                         *)
C36_MonitoringBounded ==
    /\ monitor.passes <= MaxRebootRetries + 1
    /\ (monitor.passes = MaxRebootRetries + 1 /\ PassReturned) =>
          rec.exists /\ HasCompletionTime(rec.status)
    /\ (monitor.passes > 0 /\ PassReturned /\ rec.exists
          /\ ~HasCompletionTime(rec.status)) =>
          rec.status.retryCount = monitor.passes

C36_Witness ==
    /\ monitor.passes = MaxRebootRetries + 1 /\ PassReturned
    /\ ~cfg.manualMode
    /\ NodeReadyIs(rec.status, "False", "MaxRetriesExceeded")
    /\ rec.status.consecutiveFailures = MaxFailures

----------------------------------------------------------------------------
(* C37: in manual mode a SignalSent=True condition written to the status   *)
(* by the outside actor is never lost: no status write of a Reconcile      *)
(* pass, also of one that read the record before the outside write,        *)
(* replaces it, so the record still enters monitoring.                     *)
C37_ExternalSignalNeverLost ==
    [][ (cfg.manualMode /\ rec.exists /\ SignalAlreadySent(rec.status)
            /\ rec'.exists)
          => SignalAlreadySent(rec'.status) ]_vars

(* A pass that reads the record after the outside write keeps the          *)
(* condition: only the write of a pass that was in flight loses it.        *)
C37_LaterPassKeepsSignal ==
    [][ (cfg.manualMode /\ rec.exists /\ SignalAlreadySent(rec.status)
            /\ rec'.exists /\ ~pass.disturbed)
          => SignalAlreadySent(rec'.status) ]_vars

----------------------------------------------------------------------------
(* Both goroutines missed in the fast path and waited for the write lock   *)
(* at the same time, and both calls have returned.                         *)
MissedTogether ==
    \A g \in Goroutines :
        cache.calls[g].pc = "returned" /\ cache.calls[g].together

(* A failed detection is not cached and leaves the cached result and its   *)
(* timestamp as they were.                                                 *)
ErrorLeavesCache ==
    \A g \in Goroutines :
        LET call == cache.calls[g]
        IN  call.pc = "returned" /\ call.err =>
              /\ call.invoked /\ call.result = "nil"
              /\ call.after = call.before

(* C38 as stated: when several callers find the cache empty or expired at  *)
(* the same time, the underlying detection runs at most once and all of    *)
(* them return that result; a detection that returns an error is not       *)
(* cached and leaves the cached result and its timestamp unchanged.        *)
C38_OneDetectionPerMiss ==
    /\ ErrorLeavesCache
    /\ MissedTogether =>
         /\ \E g \in Goroutines : ~cache.calls[g].invoked
         /\ \A g, h \in Goroutines :
              /\ cache.calls[g].result = cache.calls[h].result
              /\ cache.calls[g].err = cache.calls[h].err

(* C38, amended: of the callers that missed together, the one that gets    *)
(* the write lock first runs the detection; a caller that gets the lock    *)
(* after a detection that succeeded, and finds its result still cached and *)
(* within the TTL, returns that result without detecting; a caller that    *)
(* gets the lock after a failed detection, or after the result has expired *)
(* or been invalidated, runs the detection again.  A failed detection is   *)
(* not cached and leaves the cached result and its timestamp unchanged.    *)
C38_OneDetectionWhileFresh ==
    /\ ErrorLeavesCache
    /\ MissedTogether =>
         \A first, later \in Goroutines :
            LET f == cache.calls[first]
                l == cache.calls[later]
            IN  (first # later /\ l.last) =>
                  /\ f.invoked \/ l.invoked
                  /\ IF WithinTTL(l)
                     THEN /\ ServedFromCache(l)
                          /\ (~f.err /\ l.before = f.after) =>
                                (f.invoked /\ l.result = f.result)
                     ELSE /\ l.invoked
                          /\ l.before.cachedResult = "nil"
                             \/ l.checkedAt - l.before.cachedAt[1]
                                  >= cache.cacheTTL

C38_Witness ==
    /\ MissedTogether
    /\ cache.calls["g1"].invoked /\ ~cache.calls["g1"].err
    /\ cache.calls["g2"].last /\ ServedFromCache(cache.calls["g2"])
    /\ cache.calls["g2"].before = cache.calls["g1"].after
    /\ cache.calls["g2"].result = "kata"
    /\ cache.calls["g2"].checkedAt > cache.calls["g1"].checkedAt

C38_RetryAfterFailureSeen ==
    /\ MissedTogether
    /\ cache.calls["g1"].err
    /\ cache.calls["g2"].last /\ cache.calls["g2"].invoked
    /\ cache.calls["g2"].result = "kata"

----------------------------------------------------------------------------
(* C39: the labeler's Kata detection for a node is cached for 15 minutes:  *)
(* a pod event for the node handled less than 15 minutes after a           *)
(* successful detection for it reuses the cached result and does not run   *)
(* the underlying Kata detection again.                                    *)
C39_DetectionCachedAcrossEvents ==
    (labeler.event.kind \in PodEventKinds /\ labeler.event.recent) =>
        labeler.event.detections = 0

(* What the code does: every pod event runs the underlying detection *)
C39_EveryEventDetects ==
    labeler.event.kind \in PodEventKinds => labeler.event.detections = 1

----------------------------------------------------------------------------
(* C40: Detector.IsKataEnabled *)

(* The call has returned, with a result or with an error.                  *)
DetectionReturned == detect.ret # "pending"

(* The call has returned its DetectionResult with a nil error.             *)
ResultReturned == detect.active /\ detect.ret = "nil"

(* Some detection method found Kata: checkNodeMetadata or                  *)
(* detectViaRuntimeClass answered true.                                    *)
SomeMethodReportedKata == \E m \in DetectionMethods : detect.found[m]

BothGoroutinesFinished == \A m \in DetectionMethods : detect.pc[m] = "done"

(* C40: when Detector.IsKataEnabled returns a result without error, IsKata *)
(* is true exactly when at least one method reported Kata, Method names a  *)
(* method that reported it and is not "none" when IsKata is true, and both *)
(* goroutines have finished, so that nothing writes the result after the   *)
(* return.                                                                 *)
C40_ResultMatchesFindings ==
    ResultReturned =>
        /\ detect.result.IsKata <=> SomeMethodReportedKata
        /\ detect.result.IsKata =>
                /\ detect.result.Method # DetectionMethodNone
                /\ detect.result.Method \in DetectionMethods
                /\ detect.found[detect.result.Method]
        /\ BothGoroutinesFinished
        /\ ~detect.late

(* What the code does guarantee of a returned result: a positive result is *)
(* sound and names its method, a negative one has Method "none", and the   *)
(* goroutines have finished.                                               *)
C40_PositiveResultIsSound ==
    ResultReturned =>
        /\ detect.result.IsKata =>
                /\ detect.result.Method \in DetectionMethods
                /\ detect.found[detect.result.Method]
        /\ ~detect.result.IsKata => detect.result.Method = DetectionMethodNone
        /\ BothGoroutinesFinished
        /\ ~detect.late

(* A finding is lost only when the context was done before the result was  *)
(* returned: without cancellation or timeout the result matches.           *)
C40_LostOnlyAfterContextDone ==
    ResultReturned /\ SomeMethodReportedKata /\ ~detect.result.IsKata
        => detect.ctxDone

(* The call never gets stuck: until it has returned, some step of the      *)
(* goroutines, the closer or the waiter is possible, or the waiter is      *)
(* waiting for a context that has yet to time out.                         *)
C40_NeverStuck ==
    detect.active /\ ~DetectionReturned => ENABLED NextDetect

(* The call returns under fair scheduling of its goroutines and a timer    *)
(* that fires.                                                             *)
C40_AlwaysReturns == <>DetectionReturned

C40_LostFindingSeen ==
    ~(ResultReturned /\ SomeMethodReportedKata /\ ~detect.result.IsKata)

C40_PositiveSeen == ~(ResultReturned /\ detect.result.IsKata)

C40_NegativeSeen ==
    ~(ResultReturned /\ ~SomeMethodReportedKata /\ ~detect.ctxDone)

====
